---- MODULE Spec2Model ----
(***************************************************************************)
(* Model of the interactive session orchestrator of finna-mcp              *)
(* (examples/mcp_tui.py, class FinnaTUI, and the module-level helpers it   *)
(* calls).  Strings are sequences of one-character strings, so that the    *)
(* command dispatch (lower, strip, startswith, endswith, split, isdigit)   *)
(* is computed the way the code computes it.                               *)
(***************************************************************************)
EXTENDS Integers, Sequences, FiniteSets, TLC

(***************************************************************************)
(* Bounds of the model (not program constants).                            *)
(***************************************************************************)
\* events the user and the clock produce in one session: lines submitted at the
\* prompt, button presses, history keys, clock ticks
MaxEvents == 2
\* entries of the history log beyond which the user asks no further question
MaxHistory == 2
\* tool calls the agent makes in one run
MaxToolCalls == 1
\* commands the user gives in a session of commands
MaxCommands == 2
\* clock ticks in a session of commands
MaxTicks == 2

(***************************************************************************)
(* Strings.                                                                *)
(***************************************************************************)
\* the characters the model's strings are made of, in code point order
Alphabet ==
    << "\n", " ", "!", "-", ".", "/",
       "0", "1", "2", "3", "4", "5", "6", "7", "8", "9", ":",
       "A", "B", "C", "D", "E", "F", "G", "H", "I", "J", "K", "L", "M",
       "N", "O", "P", "Q", "R", "S", "T", "U", "V", "W", "X", "Y", "Z",
       "a", "b", "c", "d", "e", "f", "g", "h", "i", "j", "k", "l", "m",
       "n", "o", "p", "q", "r", "s", "t", "u", "v", "w", "x", "y", "z" >>

Chars == {Alphabet[i] : i \in 1..Len(Alphabet)}

\* ord(c), as the character's place in Alphabet
OrdTable == [c \in Chars |-> CHOOSE i \in 1..Len(Alphabet) : Alphabet[i] = c]
Ord(c) == OrdTable[c]

Whitespace == {" ", "\n"}
Digits == {"0", "1", "2", "3", "4", "5", "6", "7", "8", "9"}
UpperCase == {Alphabet[i] : i \in OrdTable["A"]..OrdTable["Z"]}

\* str.lower(), one character
LowerTable ==
    [c \in Chars |->
       IF c \in UpperCase THEN Alphabet[OrdTable[c] + (OrdTable["a"] - OrdTable["A"])] ELSE c]
LowerChar(c) == LowerTable[c]

\* str.lower()
Lower(s) == [i \in 1..Len(s) |-> LowerChar(s[i])]

SetMin(S) == CHOOSE x \in S : \A y \in S : x <= y
SetMax(S) == CHOOSE x \in S : \A y \in S : x >= y

\* str.strip()
Strip(s) ==
    LET keep == {i \in 1..Len(s) : s[i] \notin Whitespace}
    IN  IF keep = {} THEN << >> ELSE SubSeq(s, SetMin(keep), SetMax(keep))

\* str.startswith(p), str.endswith(p)
StartsWith(s, p) == Len(s) >= Len(p) /\ SubSeq(s, 1, Len(p)) = p
EndsWith(s, p) == Len(s) >= Len(p) /\ SubSeq(s, Len(s) - Len(p) + 1, Len(s)) = p

\* s.split(" ", 1)[1]: what follows the first space (s holds one)
AfterFirstSpace(s) ==
    LET first == SetMin({i \in 1..Len(s) : s[i] = " "})
    IN  SubSeq(s, first + 1, Len(s))

\* str.isdigit()
IsDigit(s) == s # << >> /\ \A i \in 1..Len(s) : s[i] \in Digits

\* int(s) of a string of digits
RECURSIVE ToInt(_)
ToInt(s) ==
    IF s = << >> THEN 0
    ELSE 10 * ToInt(SubSeq(s, 1, Len(s) - 1)) + (Ord(s[Len(s)]) - Ord("0"))

\* s < t for Python strings (code point order, a prefix sorts first)
RECURSIVE StrLess(_, _)
StrLess(s, t) ==
    IF t = << >> THEN FALSE
    ELSE IF s = << >> THEN TRUE
    ELSE IF s[1] # t[1] THEN Ord(s[1]) < Ord(t[1])
    ELSE StrLess(Tail(s), Tail(t))

Min2(a, b) == IF a <= b THEN a ELSE b
Max2(a, b) == IF a >= b THEN a ELSE b


(***************************************************************************)
(* Program constants.                                                      *)
(***************************************************************************)
\* (time.time() - ts) < 3600
FreshnessWindow == 3600
\* models[:25], min(25, len(self.model_options))
ListingCap == 25
\* filtered[:50]
PickerCap == 50
\* entries[-1000:]
HistoryFileCap == 1000

\* one clock tick of the model
TickSeconds == FreshnessWindow \div 2

(***************************************************************************)
(* Input lines, model ids, catalogs, tool and agent outcomes.              *)
(***************************************************************************)
L_hi == << "h", "i" >>
L_blank == << " " >>
L_exit == << "/", "e", "x", "i", "t" >>
L_clear == << "/", "c", "l", "e", "a", "r" >>
L_models == << "/", "m", "o", "d", "e", "l", "s" >>
L_model_sp == << "/", "m", "o", "d", "e", "l", " " >>
L_bang == << "!" >>

\* what the user types at the prompt
InputLines ==
    { L_hi, L_blank,
      << "/", "E", "x", "i", "t" >>,
      << "/", "C", "L", "E", "A", "R" >>,
      L_models, L_models \o L_bang,
      L_model_sp \o << "1" >>,
      L_model_sp \o << "b", "/", "y" >> }

\* "openrouter:"
ProviderPrefix == << "o", "p", "e", "n", "r", "o", "u", "t", "e", "r", ":" >>
\* MODEL_ID default, "openai:gpt-4o-mini" abbreviated
DefaultModel == << "o", "p", "e", "n", "a", "i", ":", "g", "p", "t" >>
SelectBlank == << "S", "e", "l", "e", "c", "t", ".", "B", "L", "A", "N", "K" >>

ModelX == [id |-> << "a", "/", "x" >>, name |-> << "X" >>]
ModelY == [id |-> << "b", "/", "y" >>, name |-> << "Y" >>]
\* the remote returns its entries in no particular order
CatalogA == << ModelY, ModelX >>

\* a catalog of ListingCap + 1 entries "m/26" .. "m/01", named "26" .. "01"
TwoDigits(n) == << Alphabet[Ord("0") + (n \div 10)], Alphabet[Ord("0") + (n % 10)] >>
CatalogBig ==
    [i \in 1..(ListingCap + 1) |->
        [id |-> << "m", "/" >> \o TwoDigits(ListingCap + 2 - i),
         name |-> TwoDigits(ListingCap + 2 - i)]]

\* an outcome of GET <catalog-url>: ok, the exchange gave a JSON object; missing,
\* the object has no "data"; is_list, its "data" is a list; descriptors, the
\* items of "data" are objects; data, the items that iterating "data" yields
Response(ok, missing, is_list, descriptors, data) ==
    [ok |-> ok, missing |-> missing, is_list |-> is_list, descriptors |-> descriptors,
     data |-> data]

\* a failure, or a well-formed payload
RemoteResponses ==
    { Response(FALSE, FALSE, TRUE, TRUE, << >>),
      Response(TRUE, FALSE, TRUE, TRUE, << >>),
      Response(TRUE, FALSE, TRUE, TRUE, CatalogA) }

\* malformed payloads: {"error": ...} without "data"; {"data": {"error": ...}};
\* {"data": ["a/x"]}
MalformedResponses ==
    { Response(TRUE, TRUE, TRUE, TRUE, << >>),
      Response(TRUE, FALSE, FALSE, FALSE, << [key |-> "error"] >>),
      Response(TRUE, FALSE, TRUE, FALSE, << [str |-> << "a", "/", "x" >>] >>) }

\* an exception: class, message, __cause__ and __context__ (<< >> is None)
Exc(cls, msg, cause, context) ==
    [cls |-> cls, msg |-> msg, cause |-> cause, context |-> context]

\* what the tool transport raises
ToolExcs ==
    { Exc("McpError", "tool failed", << >>,
          << Exc("ConnectError", "refused", << >>, << >>) >>) }

\* what the agent raises on its own account
AgentExcs == { Exc("ModelHTTPError", "bad gateway", << >>, << >>) }

\* what the agent raises when a tool call of the run has failed with e: e itself,
\* or an error of its own raised from e
AgentExcsAfter(e) ==
    { e, Exc("UnexpectedModelBehavior", "tool error", << e >>, << >>) }

ToolNames == { "search_records" }
ToolResults == { [json |-> "result", bytes |-> 2048] }
AgentOutputs == { "answer" }

\* whether a write to a file of the session succeeds
WriteOutcomes == BOOLEAN

(***************************************************************************)
(* Transcript entries.  kind and msg are the line's fixed text, arg the    *)
(* strings formatted into it, num a number formatted into it, req the      *)
(* request and call the line belongs to (0: none).                         *)
(***************************************************************************)
Entry(kind, msg, arg, num, req, call) ==
    [kind |-> kind, msg |-> msg, arg |-> arg, num |-> num, req |-> req, call |-> call]

Sys(msg, arg) == Entry("System", msg, arg, 0, 0, 0)

\* _format_error: "Cls: msg" and, when there is one, " | Caused by Cls: msg"
FormatErrorDropsCause(exc) == << << exc.cls, exc.msg >> >>

FormatError(exc) ==
    LET cause == IF exc.cause # << >> THEN exc.cause ELSE exc.context
    IN  << << exc.cls, exc.msg >> >>
        \o (IF cause # << >> /\ cause[1] # exc
            THEN << << "Caused by", cause[1].cls, cause[1].msg >> >>
            ELSE << >>)


(***************************************************************************)
(* Catalog helpers.                                                        *)
(***************************************************************************)
\* sorted(models, key=name): a stable insertion sort
RECURSIVE InsertByName(_, _)
InsertByName(sorted, item) ==
    IF sorted = << >> THEN << item >>
    ELSE IF StrLess(item.name, sorted[Len(sorted)].name)
         THEN Append(InsertByName(SubSeq(sorted, 1, Len(sorted) - 1), item),
                     sorted[Len(sorted)])
         ELSE Append(sorted, item)

RECURSIVE SortByName(_)
SortByName(models) ==
    IF models = << >> THEN << >>
    ELSE InsertByName(SortByName(SubSeq(models, 1, Len(models) - 1)), models[Len(models)])

Take(seq, n) == SubSeq(seq, 1, Min2(n, Len(seq)))

\* f"{idx:2d}"
Fmt2d(n) ==
    IF n < 10 THEN << " ", Alphabet[Ord("0") + n] >>
    ELSE << Alphabet[Ord("0") + (n \div 10)], Alphabet[Ord("0") + (n % 10)] >>

\* _format_model_list
FormatModelList(models) ==
    IF models = << >>
    THEN << Sys("no models returned from OpenRouter.", << >>) >>
    ELSE LET shown == Take(SortByName(models), ListingCap)
         IN  << Sys("OpenRouter models (first 25):", << >>) >>
             \o [i \in 1..Len(shown) |->
                   Sys("listing", << Fmt2d(i), shown[i].id, shown[i].name >>)]
             \o << Sys("select with /model <number|id>.", << >>) >>

\* FinnaTUI._build_model_options: (label, id) pairs
BuildModelOptions(models, query) ==
    LET q == Lower(Strip(query))
        Contains(s, sub) ==
            \E i \in 1..(Len(s) - Len(sub) + 1) : SubSeq(s, i, i + Len(sub) - 1) = sub
        Sel(i) == q = << >> \/ Contains(Lower(models[i].id), q)
                            \/ Contains(Lower(models[i].name), q)
        filtered == SelectSeq([i \in 1..Len(models) |-> [m |-> models[i], keep |-> Sel(i)]],
                              LAMBDA x : x.keep)
        shown == Take(SortByName([i \in 1..Len(filtered) |-> filtered[i].m]), PickerCap)
    IN  [i \in 1..Len(shown) |->
           << shown[i].id \o << " ", "-", " " >> \o shown[i].name, shown[i].id >>]

\* {value for value, _ in options}
OptionValues(options) == {options[i][1] : i \in 1..Len(options)}

\* _load_model_cache: the cache after reading the cache file (<< >>: no file)
LoadModelCache(cache, file) ==
    IF file = << >> THEN cache ELSE file[1]

\* mutant: the id is qualified without looking it up in the cache
NormalizeWithoutLookup(model_id, cache) ==
    IF StartsWith(model_id, ProviderPrefix) \/ model_id = << >> THEN model_id
    ELSE ProviderPrefix \o model_id

\* _normalize_openrouter_model, given the cache it has just reloaded
NormalizeOpenrouterModel(model_id, cache) ==
    IF StartsWith(model_id, ProviderPrefix) THEN model_id
    ELSE IF model_id = << >> THEN model_id
    ELSE IF \E i \in 1..Len(cache.data) : cache.data[i].id = model_id
         THEN ProviderPrefix \o model_id
         ELSE model_id

\* _load_history: the non-empty lines of the history file
LoadHistory(file) == SelectSeq(file, LAMBDA line : line # << >>)

\* the lines of the text f"{entry}\n"
RECURSIVE WrittenLines(_)
WrittenLines(entry) ==
    LET breaks == {i \in 1..Len(entry) : entry[i] = "\n"}
    IN  IF breaks = {} THEN << entry >>
        ELSE << SubSeq(entry, 1, SetMin(breaks) - 1) >>
             \o WrittenLines(SubSeq(entry, SetMin(breaks) + 1, Len(entry)))

\* the lines of the file that holds f"{entry}\n" for each of the entries
RECURSIVE FileLines(_)
FileLines(entries) ==
    IF entries = << >> THEN << >>
    ELSE IF Len(entries) = 1 THEN WrittenLines(entries[1])
    ELSE LET half == Len(entries) \div 2
         IN  FileLines(SubSeq(entries, 1, half))
             \o FileLines(SubSeq(entries, half + 1, Len(entries)))

\* _save_history: the last 1000 entries, each followed by a newline
SavedHistory(entries) ==
    FileLines(SubSeq(entries, Max2(1, Len(entries) - HistoryFileCap + 1), Len(entries)))

\* _load_saved_model (<< >>: no usable file)
LoadSavedModel(file) == IF file = << >> \/ file[1] = << >> THEN << >> ELSE file[1]


\* what _fetch_openrouter_models returns or raises: ok, it returned; cached, its
\* second value; data, its first value; descriptors, the items of data are objects
FetchResult(ok, cached, descriptors, data) ==
    [ok |-> ok, cached |-> cached, descriptors |-> descriptors, data |-> data]

\* no fetch has run
NoResult == FetchResult(TRUE, FALSE, TRUE, << >>)

(***************************************************************************)
(* State.                                                                  *)
(***************************************************************************)
VARIABLES
    phase,               \* "constructed", "mount_question", "mounted", "select_changed",
                         \* "exited", "crashed"
    question,            \* self.question
    model,               \* self.model
    agent_model,         \* << >>: self.agent is None; << m >>: self.agent.model
    history_entries,     \* self.history_entries
    history_index,       \* self.history_index
    prompt_value,        \* the prompt widget's value
    model_options,       \* self.model_options
    model_option_values, \* self.model_option_values
    selector_value,      \* the model selector widget's value (<< >>: blank)
    conversation_lines,  \* self.conversation_lines
    response_lines,      \* self.response_lines
    current_task,        \* self.current_task (0: None, else the task's id)
    tasks,               \* the request tasks created so far, by id
    forwarded,           \* the calls of agent.run made so far
    model_cache,         \* _MODEL_CACHE
    cache_file,          \* the file at _CACHE_PATH (<< >>: none)
    prefs_file,          \* the file at _MODEL_PREFS_PATH (<< >>: none)
    history_file,        \* the history file's lines
    now,                 \* time.time()
    pump,                \* the app's message pump: "idle", or "fetching" inside _list_models
    fetch_force,         \* the force argument of the fetch in progress
    fetch_result,        \* what the fetch in progress has got so far: its data or failure
    clipboard,           \* the text last given to xclip (<< >>: none)
    events               \* the events the user and the clock have produced so far

vars ==
    << phase, question, model, agent_model, history_entries, history_index,
       prompt_value, model_options, model_option_values, selector_value,
       conversation_lines, response_lines, current_task, tasks, forwarded,
       model_cache, cache_file, prefs_file, history_file, now, pump, fetch_force,
       fetch_result, clipboard, events >>

\* the variables of the catalog and of the model selection
catalogVars ==
    << model, agent_model, model_options, model_option_values, selector_value,
       model_cache, cache_file, prefs_file >>

\* the variables of the history log
historyVars == << history_entries, history_index, prompt_value, history_file >>

\* the variables of the request tasks
taskVars == << current_task, tasks, forwarded >>

\* a snapshot persisted by an earlier session, ts seconds old at start
Snapshot(ts) == [ts |-> ts, data |-> CatalogA]

\* what a session starts from: the command line's question and the files on disk
StartStates ==
    { [question |-> << >>, history |-> << >>, cache |-> << >>, prefs |-> << >>],
      [question |-> L_hi, history |-> << >>, cache |-> << >>, prefs |-> << >>],
      [question |-> L_hi, history |-> << L_hi >>, cache |-> << Snapshot(0) >>,
       prefs |-> << >>],
      [question |-> << >>, history |-> << L_hi, << >> >>,
       cache |-> << Snapshot(FreshnessWindow) >>, prefs |-> << ModelY.id >>] }

Init ==
    /\ phase = "constructed"
    /\ \E start \in StartStates :
          /\ question = start.question
          /\ history_file = start.history
          /\ cache_file = start.cache
          /\ prefs_file = start.prefs
    /\ model = DefaultModel
    /\ agent_model = << >>
    /\ history_entries = LoadHistory(history_file)
    /\ history_index = Len(history_entries)
    /\ prompt_value = << >>
    /\ model_options = << >>
    /\ model_option_values = {}
    /\ selector_value = << >>
    /\ conversation_lines = << >>
    /\ response_lines = << >>
    /\ current_task = 0
    /\ tasks = << >>
    /\ forwarded = << >>
    /\ model_cache = [ts |-> 0, data |-> << >>]
    /\ now = FreshnessWindow
    /\ pump = "idle"
    /\ fetch_force = FALSE
    /\ fetch_result = NoResult
    /\ clipboard = << >>
    /\ events = 0

(***************************************************************************)
(* The request task: FinnaTUI._run_agent and the tool-call interceptor.    *)
(***************************************************************************)
\* a task just made by asyncio.create_task(self._run_agent(user_input))
\* (trace: the kinds of the lines the task has logged; toolres: what its last
\* tool call returned to the agent; toolerr, raised: the
\* exception its last failed tool call raised and the one agent.run ended with)
NewTask(user_input) ==
    [pc |-> "created", must_cancel |-> FALSE, input |-> user_input, ncalls |-> 0,
     tool |-> "", toolres |-> << >>, toolerr |-> << >>, raised |-> << >>,
     outcome |-> "",
     trace |-> << >>]

\* asyncio.Task.done()
Done(t) == tasks[t].pc = "done"

\* mutant: "not" dropped from the test of done()
RequestInProgressInverted == current_task # 0 /\ Done(current_task)

\* mutant: done() not consulted
RequestInProgressIgnoresDone == current_task # 0

\* self.current_task and not self.current_task.done()
RequestInProgress == current_task # 0 /\ ~Done(current_task)

\* asyncio.Task.cancel() on the current task
CancelCurrent == [tasks EXCEPT ![current_task].must_cancel = TRUE]

\* len(response_text.encode("utf-8")) / 1024, formatted .1f: tenths of a KB
SizeTenthsKb(bytes) == (bytes * 10 + 512) \div 1024

\* mutant: the User line is not written before the question is forwarded
TaskStartWithoutUserLine(t) ==
    /\ tasks[t].pc = "created"
    /\ IF tasks[t].must_cancel
       THEN /\ tasks' = [tasks EXCEPT ![t].pc = "done", ![t].outcome = "cancelled"]
            /\ UNCHANGED << agent_model, forwarded >>
       ELSE /\ agent_model' = IF agent_model = << >> THEN << model >> ELSE agent_model
            /\ forwarded' = Append(forwarded, [req |-> t, input |-> tasks[t].input])
            /\ tasks' = [tasks EXCEPT ![t].pc = "running"]
    /\ UNCHANGED << phase, question, model, historyVars, model_options,
                    model_option_values, selector_value, conversation_lines,
                    response_lines, current_task, model_cache, cache_file, prefs_file,
                    now, pump, fetch_force, fetch_result,
                    clipboard, events >>

\* the task's first step: a cancellation delivered before it is thrown into the
\* coroutine before its first statement; otherwise the User line, _ensure_agent
\* and the call of agent.run up to its first suspension
TaskStart(t) ==
    /\ tasks[t].pc = "created"
    /\ IF tasks[t].must_cancel
       THEN /\ tasks' = [tasks EXCEPT ![t].pc = "done", ![t].outcome = "cancelled"]
            /\ UNCHANGED << conversation_lines, agent_model, forwarded >>
       ELSE /\ conversation_lines' =
                 Append(conversation_lines,
                        Entry("User", "User:", << tasks[t].input >>, 0, t, 0))
            /\ agent_model' = IF agent_model = << >> THEN << model >> ELSE agent_model
            /\ forwarded' = Append(forwarded, [req |-> t, input |-> tasks[t].input])
            /\ tasks' = [tasks EXCEPT ![t].pc = "running",
                                      ![t].trace = Append(@, "User")]
    /\ UNCHANGED << phase, question, model, historyVars, model_options,
                    model_option_values, selector_value, response_lines, current_task,
                    model_cache, cache_file, prefs_file, now, pump, fetch_force,
                    fetch_result,
                    clipboard, events >>

\* mutant: the call line is not written before the transport is called
AgentCallsToolNoLog(t, name) ==
    /\ tasks[t].pc = "running"
    /\ ~tasks[t].must_cancel
    /\ tasks[t].ncalls < MaxToolCalls
    /\ tasks' = [tasks EXCEPT ![t].pc = "tool", ![t].tool = name, ![t].ncalls = @ + 1]
    /\ UNCHANGED << phase, question, catalogVars, historyVars, conversation_lines,
                    response_lines, current_task, forwarded, now, pump, fetch_force, fetch_result,
                    clipboard,
                    events >>

\* process_tool_call up to "await call_tool(...)"
AgentCallsTool(t, name) ==
    /\ tasks[t].pc = "running"
    /\ ~tasks[t].must_cancel
    /\ tasks[t].ncalls < MaxToolCalls
    /\ conversation_lines' =
         Append(conversation_lines,
                Entry("ToolCall", "Tool call:", << << name, "{}" >> >>, 0, t,
                      tasks[t].ncalls + 1))
    /\ tasks' = [tasks EXCEPT ![t].pc = "tool", ![t].tool = name,
                              ![t].ncalls = @ + 1, ![t].trace = Append(@, "ToolCall")]
    /\ UNCHANGED << phase, question, catalogVars, historyVars, response_lines,
                    current_task, forwarded, now, pump, fetch_force,
                    fetch_result,
                    clipboard, events >>

\* process_tool_call after call_tool has returned
ToolReturns(t, result) ==
    /\ tasks[t].pc = "tool"
    /\ ~tasks[t].must_cancel
    /\ response_lines' =
         Append(response_lines,
                Entry("ToolResponse", "->", << << tasks[t].tool, "{}", result.json >> >>,
                      SizeTenthsKb(result.bytes), t, tasks[t].ncalls))
    /\ tasks' = [tasks EXCEPT ![t].pc = "running", ![t].toolres = << result >>,
                              ![t].trace = Append(@, "ToolResponse")]
    /\ UNCHANGED << phase, question, catalogVars, historyVars, conversation_lines,
                    current_task, forwarded, now, pump, fetch_force,
                    fetch_result,
                    clipboard, events >>

\* process_tool_call after call_tool has raised: the error line, then raise
ToolRaises(t, exc) ==
    /\ tasks[t].pc = "tool"
    /\ ~tasks[t].must_cancel
    /\ response_lines' =
         Append(response_lines,
                Entry("ToolError", "", FormatError(exc), 0, t, tasks[t].ncalls))
    /\ tasks' = [tasks EXCEPT ![t].pc = "running", ![t].toolerr = << exc >>,
                              ![t].trace = Append(@, "ToolError")]
    /\ UNCHANGED << phase, question, catalogVars, historyVars, conversation_lines,
                    current_task, forwarded, now, pump, fetch_force,
                    fetch_result,
                    clipboard, events >>

\* the end of _run_agent: its last line, then "finally: self.current_task = None"
Finish(t, entry, outcome, raised) ==
    /\ conversation_lines' = Append(conversation_lines, entry)
    /\ tasks' = [tasks EXCEPT ![t].pc = "done", ![t].outcome = outcome,
                              ![t].raised = raised,
                              ![t].trace = Append(@, IF outcome = "cancelled" THEN "Cancelled"
                                                     ELSE entry.kind)]
    /\ current_task' = 0
    /\ UNCHANGED << phase, question, catalogVars, historyVars, response_lines,
                    forwarded, now, pump, fetch_force, fetch_result,
                    clipboard, events >>

\* agent.run returns: the else branch
AgentReturns(t, output) ==
    /\ tasks[t].pc = "running"
    /\ ~tasks[t].must_cancel
    /\ Finish(t, Entry("Assistant", "Assistant:", << << output >> >>, 0, t, 0), "ok", << >>)

\* agent.run raises: except Exception
AgentRaises(t, exc) ==
    /\ tasks[t].pc = "running"
    /\ ~tasks[t].must_cancel
    /\ exc \in AgentExcs \cup (IF tasks[t].toolerr = << >> THEN {}
                               ELSE AgentExcsAfter(tasks[t].toolerr[1]))
    /\ Finish(t, Entry("Error", "Error:", FormatError(exc), 0, t, 0), "error", << exc >>)

\* mutant: the cancellation of a tool call is logged like a failure of the tool
TaskCancelledLogsToolError(t) ==
    /\ tasks[t].pc \in { "running", "tool" }
    /\ tasks[t].must_cancel
    /\ conversation_lines' =
         Append(conversation_lines, Entry("System", "Request cancelled.", << >>, 0, t, 0))
    /\ response_lines' =
         IF tasks[t].pc = "tool"
         THEN Append(response_lines,
                     Entry("ToolError", "", << << "CancelledError", "" >> >>, 0, t,
                           tasks[t].ncalls))
         ELSE response_lines
    /\ tasks' = [tasks EXCEPT ![t].pc = "done", ![t].outcome = "cancelled",
                              ![t].trace = Append(@, "Cancelled")]
    /\ current_task' = 0
    /\ UNCHANGED << phase, question, catalogVars, historyVars, forwarded, now, pump,
                    fetch_force, fetch_result, clipboard, events >>

\* CancelledError thrown at the await the task is suspended in: it passes
\* process_tool_call's "except Exception" and reaches except asyncio.CancelledError
TaskCancelled(t) ==
    /\ tasks[t].pc \in { "running", "tool" }
    /\ tasks[t].must_cancel
    /\ Finish(t, Entry("System", "Request cancelled.", << >>, 0, t, 0), "cancelled", << >>)


(***************************************************************************)
(* The handlers of the app's message pump.                                 *)
(***************************************************************************)
\* mutant: the history is appended only once the question has been accepted
AskQuestionSkipsHistoryWhenBusy(user_input, wrote) ==
    LET id == Len(history_entries) + 1
    IN  /\ Len(history_entries) < MaxHistory
        /\ IF RequestInProgress
           THEN /\ conversation_lines' =
                     Append(conversation_lines,
                            Sys("Request already in progress. Press Stop to cancel.", << >>))
                /\ UNCHANGED << current_task, tasks, history_entries, history_index,
                                history_file >>
           ELSE /\ history_entries' = Append(history_entries, user_input)
                /\ history_index' = Len(history_entries')
                /\ history_file' =
                     IF wrote THEN SavedHistory(history_entries') ELSE history_file
                /\ tasks' = (id :> NewTask(user_input)) @@ tasks
                /\ current_task' = id
                /\ UNCHANGED conversation_lines
        /\ phase' = "mounted"
        /\ UNCHANGED << question, catalogVars, prompt_value, response_lines, forwarded,
                        now, pump, fetch_force, fetch_result,
                    clipboard >>

\* FinnaTUI._append_history and, after it, the rest of _handle_user_input:
\* the Busy line, or a new request task
AskQuestion(user_input, wrote) ==
    LET id == Len(history_entries) + 1
    IN  /\ Len(history_entries) < MaxHistory
        /\ history_entries' = Append(history_entries, user_input)
        /\ history_index' = Len(history_entries')
        /\ history_file' = IF wrote THEN SavedHistory(history_entries') ELSE history_file
        /\ IF RequestInProgress
           THEN /\ conversation_lines' =
                     Append(conversation_lines,
                            Sys("Request already in progress. Press Stop to cancel.", << >>))
                /\ UNCHANGED << current_task, tasks >>
           ELSE /\ tasks' = (id :> NewTask(user_input)) @@ tasks
                /\ current_task' = id
                /\ UNCHANGED conversation_lines
        /\ phase' = "mounted"
        /\ UNCHANGED << question, catalogVars, prompt_value, response_lines, forwarded,
                        now, pump, fetch_force, fetch_result,
                    clipboard >>

\* mutant: the session ends without on_shutdown_request cancelling the request
ExitWithoutCancel ==
    /\ phase' = "exited"
    /\ UNCHANGED << question, catalogVars, historyVars, conversation_lines,
                    response_lines, taskVars, now, pump, fetch_force,
                    fetch_result,
                    clipboard >>

\* /exit: action_quit, and on_shutdown_request cancelling the request in progress
Exit ==
    /\ phase' = "exited"
    /\ tasks' = IF RequestInProgress THEN CancelCurrent ELSE tasks
    /\ UNCHANGED << question, catalogVars, historyVars, conversation_lines,
                    response_lines, current_task, forwarded, now, pump, fetch_force,
                    fetch_result,
                    clipboard >>

\* mutant: /clear also forgets the input history
ClearAlsoResetsHistory ==
    /\ conversation_lines' = << >>
    /\ response_lines' = << >>
    /\ history_entries' = << >>
    /\ history_index' = 0
    /\ phase' = "mounted"
    /\ UNCHANGED << question, catalogVars, prompt_value, history_file, taskVars, now, pump,
                    fetch_force, fetch_result,
                    clipboard >>

\* /clear
Clear ==
    /\ conversation_lines' = << >>
    /\ response_lines' = << >>
    /\ phase' = "mounted"
    /\ UNCHANGED << question, catalogVars, historyVars, taskVars, now, pump, fetch_force,
                    fetch_result,
                    clipboard >>

\* FinnaTUI._list_models up to "await asyncio.to_thread(_fetch_openrouter_models, force)"
ListModelsStart(force) ==
    /\ conversation_lines' =
         Append(conversation_lines, Sys("Fetching OpenRouter models...", << >>))
    /\ pump' = "fetching"
    /\ fetch_force' = force
    /\ phase' = "mounted"
    /\ UNCHANGED << question, catalogVars, historyVars, response_lines, taskVars, now,
                    fetch_result,
                    clipboard >>

\* mutant: a number outside the listing is taken as a literal id
SelectModelOutOfRangeLiteral(selection, wrote) ==
    LET chosen ==
            IF IsDigit(selection) /\ model_options # << >>
               /\ 1 <= ToInt(selection)
               /\ ToInt(selection) <= Min2(ListingCap, Len(model_options))
            THEN model_options[ToInt(selection)].id
            ELSE selection
        cache == LoadModelCache(model_cache, cache_file)
    IN  /\ phase' = "mounted"
        /\ IF selection = << >> \/ selection = SelectBlank
           THEN UNCHANGED << catalogVars, conversation_lines >>
           ELSE /\ model_cache' = cache
                /\ model' = NormalizeOpenrouterModel(chosen, cache)
                /\ agent_model' = IF agent_model # << >> THEN << model' >> ELSE agent_model
                /\ conversation_lines' =
                     Append(conversation_lines, Sys("Selected model", << model' >>))
                /\ prefs_file' = IF wrote THEN << model' >> ELSE prefs_file
                /\ selector_value' =
                     IF selector_value # chosen /\ chosen \in model_option_values
                     THEN chosen ELSE selector_value
                /\ UNCHANGED << model_options, model_option_values, cache_file >>
        /\ UNCHANGED << question, historyVars, response_lines, taskVars, now, pump,
                        fetch_force, fetch_result,
                    clipboard >>

\* mutant: the selection is not passed on to the agent
SelectModelAgentKeepsModel(selection, wrote) ==
    LET chosen ==
            IF IsDigit(selection) /\ model_options # << >>
            THEN IF 1 <= ToInt(selection)
                    /\ ToInt(selection) <= Min2(ListingCap, Len(model_options))
                 THEN model_options[ToInt(selection)].id
                 ELSE << >>
            ELSE selection
        cache == LoadModelCache(model_cache, cache_file)
    IN  /\ phase' = "mounted"
        /\ IF selection = << >> \/ selection = SelectBlank
           THEN UNCHANGED << catalogVars, conversation_lines >>
           ELSE IF chosen = << >>
           THEN /\ conversation_lines' =
                     Append(conversation_lines, Sys("Invalid model selection.", << >>))
                /\ UNCHANGED catalogVars
           ELSE /\ model_cache' = cache
                /\ model' = NormalizeOpenrouterModel(chosen, cache)
                /\ agent_model' = agent_model
                /\ conversation_lines' =
                     Append(conversation_lines, Sys("Selected model", << model' >>))
                /\ prefs_file' = IF wrote THEN << model' >> ELSE prefs_file
                /\ selector_value' =
                     IF selector_value # chosen /\ chosen \in model_option_values
                     THEN chosen ELSE selector_value
                /\ UNCHANGED << model_options, model_option_values, cache_file >>
        /\ UNCHANGED << question, historyVars, response_lines, taskVars, now, pump,
                        fetch_force, fetch_result,
                    clipboard >>

\* FinnaTUI._select_model
SelectModel(selection, wrote) ==
    LET chosen ==
            IF IsDigit(selection) /\ model_options # << >>
            THEN IF 1 <= ToInt(selection)
                    /\ ToInt(selection) <= Min2(ListingCap, Len(model_options))
                 THEN model_options[ToInt(selection)].id
                 ELSE << >>
            ELSE selection
        cache == LoadModelCache(model_cache, cache_file)
    IN  /\ phase' = "mounted"
        /\ IF selection = << >> \/ selection = SelectBlank
           THEN UNCHANGED << catalogVars, conversation_lines >>
           ELSE IF chosen = << >>
           THEN /\ conversation_lines' =
                     Append(conversation_lines, Sys("Invalid model selection.", << >>))
                /\ UNCHANGED catalogVars
           ELSE /\ model_cache' = cache
                /\ model' = NormalizeOpenrouterModel(chosen, cache)
                /\ agent_model' = IF agent_model # << >> THEN << model' >> ELSE agent_model
                /\ conversation_lines' =
                     Append(conversation_lines, Sys("Selected model", << model' >>))
                /\ prefs_file' = IF wrote THEN << model' >> ELSE prefs_file
                /\ selector_value' =
                     IF selector_value # chosen /\ chosen \in model_option_values
                     THEN chosen ELSE selector_value
                /\ UNCHANGED << model_options, model_option_values, cache_file >>
        /\ UNCHANGED << question, historyVars, response_lines, taskVars, now, pump,
                        fetch_force, fetch_result,
                    clipboard >>

\* mutant: the /models test is missing, so the line falls through as a question
HandleUserInputWithoutModels(user_input, wrote) ==
    IF Lower(user_input) = L_exit THEN Exit
    ELSE IF Lower(user_input) = L_clear THEN Clear
    ELSE IF StartsWith(Lower(user_input), L_model_sp)
    THEN SelectModel(Strip(AfterFirstSpace(user_input)), wrote)
    ELSE AskQuestion(user_input, wrote)

\* FinnaTUI._handle_user_input
HandleUserInput(user_input, wrote) ==
    IF Lower(user_input) = L_exit THEN Exit
    ELSE IF Lower(user_input) = L_clear THEN Clear
    ELSE IF StartsWith(Lower(user_input), L_models)
    THEN ListModelsStart(EndsWith(Lower(Strip(user_input)), L_bang))
    ELSE IF StartsWith(Lower(user_input), L_model_sp)
    THEN SelectModel(Strip(AfterFirstSpace(user_input)), wrote)
    ELSE AskQuestion(user_input, wrote)

\* mutant: a handler runs while another one is suspended in a fetch
InteractiveDuringFetch == phase = "mounted"

\* the user can act: the app is mounted and its pump is not inside a handler
Interactive == phase = "mounted" /\ pump = "idle"

\* the session has an event left
MayAct == events < MaxEvents

\* FinnaTUI.on_input_submitted
InputSubmitted(value, wrote) ==
    /\ Interactive
    /\ MayAct
    /\ IF Strip(value) = << >>
       THEN UNCHANGED vars
       ELSE HandleUserInput(Strip(value), wrote) /\ events' = events + 1

\* _fetch_openrouter_models(force), on a worker thread, and the rest of
\* _list_models once it has returned or raised (an exception that leaves
\* _list_models ends the app)
ListModelsFinish(resp, wrote) ==
    LET cache == LoadModelCache(model_cache, cache_file)
        hit == ~fetch_force /\ cache.data # << >> /\ (now - cache.ts) < FreshnessWindow
        data == IF resp.missing THEN << >> ELSE resp.data
        store == ~hit /\ resp.ok /\ resp.is_list /\ data # << >>
        fetched == [ts |-> now, data |-> data]
        models == IF hit THEN cache.data ELSE data
        raises == ~hit /\ resp.ok /\ data # << >> /\ ~resp.descriptors
    IN  /\ pump = "fetching"
        /\ pump' = "idle"
        /\ model_cache' = IF store THEN fetched ELSE cache
        /\ cache_file' = IF store /\ wrote THEN << fetched >> ELSE cache_file
        /\ IF ~hit /\ ~resp.ok
           THEN /\ conversation_lines' =
                     Append(conversation_lines,
                            Sys("Failed to fetch models:", << << "URLError" >> >>))
                /\ UNCHANGED << model_options, model_option_values, phase >>
           ELSE IF raises
           THEN /\ model_options' = models
                /\ phase' = "crashed"
                /\ UNCHANGED << conversation_lines, model_option_values >>
           ELSE /\ conversation_lines' =
                     conversation_lines
                     \o (IF hit THEN << Sys("Using cached OpenRouter model list.", << >>) >>
                                ELSE << >>)
                     \o FormatModelList(models)
                /\ model_options' = models
                /\ model_option_values' = OptionValues(BuildModelOptions(models, << >>))
                /\ UNCHANGED phase
        /\ UNCHANGED << question, model, agent_model, selector_value, prefs_file,
                        historyVars, response_lines, taskVars, now, fetch_force,
                    fetch_result,
                    clipboard, events >>

\* FinnaTUI.on_button_pressed, button "stop-run"
StopPressed ==
    /\ Interactive
    /\ MayAct
    /\ events' = events + 1
    /\ IF RequestInProgress
       THEN /\ tasks' = CancelCurrent
            /\ conversation_lines' =
                 Append(conversation_lines, Sys("Stopping request...", << >>))
       ELSE /\ conversation_lines' =
                 Append(conversation_lines, Sys("No request in progress.", << >>))
            /\ UNCHANGED tasks
    /\ UNCHANGED << phase, question, catalogVars, historyVars, response_lines,
                    current_task, forwarded, now, pump, fetch_force, fetch_result,
                    clipboard >>

\* mutant: the cursor is clamped to the last entry, not to the past-end position
NavigateHistoryNoPastEnd(delta) ==
    /\ Interactive
    /\ MayAct
    /\ events' = events + 1
    /\ IF history_entries = << >>
       THEN UNCHANGED << history_index, prompt_value >>
       ELSE /\ history_index' =
                 Max2(0, Min2(Len(history_entries) - 1, history_index + delta))
            /\ prompt_value' =
                 IF history_index' >= Len(history_entries)
                 THEN << >>
                 ELSE history_entries[history_index' + 1]
    /\ UNCHANGED << phase, question, catalogVars, history_entries, history_file,
                    conversation_lines, response_lines, taskVars, now, pump, fetch_force,
                    fetch_result,
                    clipboard >>

\* FinnaTUI._navigate_history, from on_key "up" (-1) and "down" (1)
NavigateHistory(delta) ==
    /\ Interactive
    /\ MayAct
    /\ events' = events + 1
    /\ IF history_entries = << >>
       THEN UNCHANGED << history_index, prompt_value >>
       ELSE /\ history_index' =
                 Max2(0, Min2(Len(history_entries), history_index + delta))
            /\ prompt_value' =
                 IF history_index' >= Len(history_entries)
                 THEN << >>
                 ELSE history_entries[history_index' + 1]
    /\ UNCHANGED << phase, question, catalogVars, history_entries, history_file,
                    conversation_lines, response_lines, taskVars, now, pump, fetch_force,
                    fetch_result,
                    clipboard >>

\* FinnaTUI.on_mount, up to the question given on the command line
Mount ==
    LET saved == LoadSavedModel(prefs_file)
        cache == LoadModelCache(model_cache, cache_file)
        values == OptionValues(BuildModelOptions(cache.data, << >>))
    IN  /\ phase = "constructed"
        /\ phase' = IF question # << >> THEN "mount_question" ELSE "mounted"
        /\ model' = IF saved # << >> THEN saved ELSE model
        /\ conversation_lines' =
             IF saved # << >>
             THEN Append(conversation_lines, Sys("Restored model", << model' >>))
             ELSE conversation_lines
        /\ agent_model' = << model' >>
        /\ model_cache' = cache
        /\ IF cache.data # << >>
           THEN /\ model_options' = cache.data
                /\ model_option_values' = values
                /\ selector_value' =
                     IF saved # << >> /\ NormalizeOpenrouterModel(saved, cache) \in values
                     THEN NormalizeOpenrouterModel(saved, cache)
                     ELSE selector_value
           ELSE UNCHANGED << model_options, model_option_values, selector_value >>
        /\ UNCHANGED << question, historyVars, response_lines, taskVars, cache_file,
                        prefs_file, now, pump, fetch_force, fetch_result,
                    clipboard, events >>

\* FinnaTUI.on_mount: "if self.question: await self._handle_user_input(self.question)"
MountQuestion ==
    /\ phase = "mount_question"
    /\ \E wrote \in WriteOutcomes : HandleUserInput(question, wrote)
    /\ UNCHANGED events

\* time passes
Tick ==
    /\ MayAct
    /\ events' = events + 1
    /\ now' = now + TickSeconds
    /\ UNCHANGED << phase, question, catalogVars, historyVars, conversation_lines,
                    response_lines, taskVars, pump, fetch_force, fetch_result,
                    clipboard >>

\* the steps of the request tasks
TaskNext ==
    \E t \in DOMAIN tasks :
        \/ TaskStart(t)
        \/ \E name \in ToolNames : AgentCallsTool(t, name)
        \/ \E result \in ToolResults : ToolReturns(t, result)
        \/ \E exc \in ToolExcs : ToolRaises(t, exc)
        \/ \E output \in AgentOutputs : AgentReturns(t, output)
        \/ \E exc \in AgentExcs \cup UNION {AgentExcsAfter(e) : e \in ToolExcs} :
               AgentRaises(t, exc)
        \/ TaskCancelled(t)

Next ==
    \/ Mount
    \/ MountQuestion
    \/ \E value \in InputLines, wrote \in WriteOutcomes : InputSubmitted(value, wrote)
    \/ \E resp \in RemoteResponses, wrote \in WriteOutcomes : ListModelsFinish(resp, wrote)
    \/ StopPressed
    \/ \E delta \in { -1, 1 } : NavigateHistory(delta)
    \/ Tick
    \/ TaskNext

Spec == Init /\ [][Next]_vars

\* the event loop runs every task that can take a step
FairSpec == Spec /\ WF_vars(TaskNext)


(***************************************************************************)
(* The history log on its own: sessions restored from history files of up  *)
(* to 1000 lines, in which the user types, submits questions and browses   *)
(* the log.                                                                *)
(***************************************************************************)
\* the n-th question of a user who never repeats one: n in decimal
RECURSIVE QuestionNo(_)
QuestionNo(n) ==
    IF n < 10 THEN << Alphabet[Ord("0") + n] >>
    ELSE Append(QuestionNo(n \div 10), Alphabet[Ord("0") + (n % 10)])

\* a history file of n lines, as _save_history leaves it
HistoryFileOf(n) == [i \in 1..n |-> QuestionNo(i)]

\* the sizes of the history files the sessions start from
HistoryStarts == { 0, 1, HistoryFileCap - 1, HistoryFileCap }

\* what the user types into the prompt without submitting it
PromptTexts == { L_hi }

\* the state after FinnaTUI.__init__, given the command line's question and the
\* files on disk
InitFrom(q, history, cache, prefs) ==
    /\ phase = "constructed"
    /\ question = q
    /\ history_file = history
    /\ cache_file = cache
    /\ prefs_file = prefs
    /\ model = DefaultModel
    /\ agent_model = << >>
    /\ history_entries = LoadHistory(history)
    /\ history_index = Len(history_entries)
    /\ prompt_value = << >>
    /\ model_options = << >>
    /\ model_option_values = {}
    /\ selector_value = << >>
    /\ conversation_lines = << >>
    /\ response_lines = << >>
    /\ current_task = 0
    /\ tasks = << >>
    /\ forwarded = << >>
    /\ model_cache = [ts |-> 0, data |-> << >>]
    /\ now = FreshnessWindow
    /\ pump = "idle"
    /\ fetch_force = FALSE
    /\ fetch_result = NoResult
    /\ clipboard = << >>
    /\ events = 0

HistoryInit == \E n \in HistoryStarts : InitFrom(<< >>, HistoryFileOf(n), << >>, << >>)

\* FinnaTUI._append_history, for a question the user submits (the user stops
\* at MaxHistory entries, or at MaxHistory entries beyond the file's bound)
AppendHistory(user_input, wrote) ==
    /\ Interactive
    /\ \/ Len(history_entries) < MaxHistory
       \/ /\ Len(history_entries) >= HistoryFileCap - 1
          /\ Len(history_entries) < HistoryFileCap + MaxHistory
    /\ history_entries' = Append(history_entries, user_input)
    /\ history_index' = Len(history_entries')
    /\ history_file' = IF wrote THEN SavedHistory(history_entries') ELSE history_file
    /\ UNCHANGED << phase, question, catalogVars, prompt_value, conversation_lines,
                    response_lines, taskVars, now, pump, fetch_force,
                    fetch_result,
                    clipboard, events >>

\* the user edits the text of the prompt widget
PromptTyped(text) ==
    /\ Interactive
    /\ prompt_value' = text
    /\ UNCHANGED << phase, question, catalogVars, history_entries, history_index,
                    history_file, conversation_lines, response_lines, taskVars, now,
                    pump, fetch_force, fetch_result,
                    clipboard, events >>

HistoryNext ==
    \/ Mount
    \/ \E wrote \in WriteOutcomes :
           AppendHistory(QuestionNo(Len(history_entries) + 1), wrote)
    \/ \E text \in PromptTexts : PromptTyped(text)
    \/ \E delta \in { -1, 1 } : NavigateHistory(delta)

HistorySpec == HistoryInit /\ [][HistoryNext]_vars


(***************************************************************************)
(* Sessions of commands: the catalog is listed, refreshed and selected     *)
(* from, by well-formed and ill-formed command lines, against every kind   *)
(* of remote response, while the clock advances.                           *)
(***************************************************************************)
L_model == << "/", "m", "o", "d", "e", "l" >>
L_modelsfoo == L_models \o << "f", "o", "o" >>
L_models_extra == L_models \o << " ", "x" >>
L_help == << "/", "h", "e", "l", "p" >>
T_unknown == << "z", "z" >>

\* the tokens given to /model
Tokens ==
    { << "0" >>, << "1" >>, << "2" >>, << "3" >>, << "2", "5" >>, << "2", "6" >>,
      T_unknown, ModelY.id, SelectBlank }

\* the lines the user submits in a session of commands
CommandLines ==
    { L_exit, L_clear, L_models, L_models \o L_bang, L_modelsfoo, L_models_extra,
      L_models_extra \o L_bang, L_model, L_help,
      << "/", "M", "o", "d", "e", "l", " ", "2" >> }
    \cup { L_model_sp \o token : token \in Tokens }

\* the remote's answers in a session of commands
CommandResponses ==
    RemoteResponses \cup MalformedResponses
    \cup { Response(TRUE, FALSE, TRUE, TRUE, CatalogBig) }

\* the cache files a session of commands starts from: none, one past the
\* freshness window, a fresh one
CommandStarts == { << >>, << Snapshot(0) >>, << Snapshot(FreshnessWindow) >> }

CommandInit == \E cache \in CommandStarts : InitFrom(<< >>, << >>, cache, << >>)

\* FinnaTUI.on_input_submitted, for a line that is not blank
CommandSubmitted(value, wrote) ==
    /\ Interactive
    /\ events < MaxCommands
    /\ Strip(value) # << >>
    /\ HandleUserInput(Strip(value), wrote)
    /\ events' = events + 1

\* time passes
ClockAdvances ==
    /\ now < FreshnessWindow + MaxTicks * TickSeconds
    /\ now' = now + TickSeconds
    /\ UNCHANGED << phase, question, catalogVars, historyVars, conversation_lines,
                    response_lines, taskVars, pump, fetch_force,
                    fetch_result,
                    clipboard, events >>

CommandNext ==
    \/ Mount
    \/ \E value \in CommandLines, wrote \in WriteOutcomes : CommandSubmitted(value, wrote)
    \/ \E resp \in CommandResponses, wrote \in WriteOutcomes : ListModelsFinish(resp, wrote)
    \/ ClockAdvances
    \/ TaskNext

CommandSpec == CommandInit /\ [][CommandNext]_vars

(***************************************************************************)
(* The catalog fetch, statement by statement.  asyncio.to_thread runs      *)
(* _fetch_openrouter_models on a worker thread while _list_models, and     *)
(* with it the handler of the app that called it, is suspended; pump is    *)
(* the thread's position:                                                  *)
(*   "fetching"   at the start of _fetch_openrouter_models                 *)
(*   "loading"    in _load_model_cache, between the two assignments        *)
(*   "loaded"     after _load_model_cache                                  *)
(*   "storing"    between the two assignments of the new snapshot          *)
(*   "saving"     before _save_model_cache                                 *)
(*   "returning"  the thread has returned or raised                        *)
(***************************************************************************)

\* _load_model_cache up to _MODEL_CACHE["ts"] = ...; without a file, all of it
FetchLoadsTs ==
    /\ pump = "fetching"
    /\ IF cache_file = << >>
       THEN /\ pump' = "loaded"
            /\ UNCHANGED model_cache
       ELSE /\ pump' = "loading"
            /\ model_cache' = [model_cache EXCEPT !.ts = cache_file[1].ts]
    /\ UNCHANGED << phase, question, model, agent_model, model_options,
                    model_option_values, selector_value, cache_file, prefs_file,
                    historyVars, conversation_lines, response_lines, taskVars, now,
                    fetch_force, fetch_result,
                    clipboard, events >>

\* _load_model_cache: _MODEL_CACHE["data"] = payload.get("data", [])
FetchLoadsData ==
    /\ pump = "loading"
    /\ pump' = "loaded"
    /\ model_cache' = [model_cache EXCEPT !.data = cache_file[1].data]
    /\ UNCHANGED << phase, question, model, agent_model, model_options,
                    model_option_values, selector_value, cache_file, prefs_file,
                    historyVars, conversation_lines, response_lines, taskVars, now,
                    fetch_force, fetch_result,
                    clipboard, events >>

\* _fetch_openrouter_models from the freshness test to _MODEL_CACHE["ts"] =
\* time.time(): the cached list is returned, or the remote is called and answers
\* with resp
FetchCalls(resp) ==
    LET hit == /\ ~fetch_force
               /\ model_cache.data # << >>
               /\ (now - model_cache.ts) < FreshnessWindow
        data == IF resp.missing THEN << >> ELSE resp.data
        store == resp.ok /\ resp.is_list /\ data # << >>
    IN  /\ pump = "loaded"
        /\ IF hit
           THEN /\ fetch_result' = FetchResult(TRUE, TRUE, TRUE, model_cache.data)
                /\ pump' = "returning"
                /\ UNCHANGED model_cache
           ELSE IF ~resp.ok
           THEN /\ fetch_result' = FetchResult(FALSE, FALSE, TRUE, << >>)
                /\ pump' = "returning"
                /\ UNCHANGED model_cache
           ELSE /\ fetch_result' =
                     FetchResult(TRUE, FALSE, resp.descriptors \/ data = << >>, data)
                /\ IF store
                   THEN /\ model_cache' = [model_cache EXCEPT !.ts = now]
                        /\ pump' = "storing"
                   ELSE /\ pump' = "returning"
                        /\ UNCHANGED model_cache
        /\ UNCHANGED << phase, question, model, agent_model, model_options,
                        model_option_values, selector_value, cache_file, prefs_file,
                        historyVars, conversation_lines, response_lines, taskVars, now,
                        fetch_force, clipboard, events >>

\* _fetch_openrouter_models: _MODEL_CACHE["data"] = data
FetchStoresData ==
    /\ pump = "storing"
    /\ pump' = "saving"
    /\ model_cache' = [model_cache EXCEPT !.data = fetch_result.data]
    /\ UNCHANGED << phase, question, model, agent_model, model_options,
                    model_option_values, selector_value, cache_file, prefs_file,
                    historyVars, conversation_lines, response_lines, taskVars, now,
                    fetch_force, fetch_result,
                    clipboard, events >>

\* _save_model_cache: json.dump(_MODEL_CACHE, handle), and the return
FetchSaves(wrote) ==
    /\ pump = "saving"
    /\ pump' = "returning"
    /\ cache_file' = IF wrote THEN << model_cache >> ELSE cache_file
    /\ UNCHANGED << phase, question, model, agent_model, model_options,
                    model_option_values, selector_value, model_cache, prefs_file,
                    historyVars, conversation_lines, response_lines, taskVars, now,
                    fetch_force, fetch_result,
                    clipboard, events >>

\* _list_models after await asyncio.to_thread(...)
ListModelsReturns ==
    /\ pump = "returning"
    /\ pump' = "idle"
    /\ IF ~fetch_result.ok
       THEN /\ conversation_lines' =
                 Append(conversation_lines,
                        Sys("Failed to fetch models:", << << "URLError" >> >>))
            /\ UNCHANGED << model_options, model_option_values, phase >>
       ELSE IF ~fetch_result.descriptors
       THEN /\ model_options' = fetch_result.data
            /\ phase' = "crashed"
            /\ UNCHANGED << conversation_lines, model_option_values >>
       ELSE /\ conversation_lines' =
                 conversation_lines
                 \o (IF fetch_result.cached
                     THEN << Sys("Using cached OpenRouter model list.", << >>) >>
                     ELSE << >>)
                 \o FormatModelList(fetch_result.data)
            /\ model_options' = fetch_result.data
            /\ model_option_values' =
                 OptionValues(BuildModelOptions(fetch_result.data, << >>))
            /\ UNCHANGED phase
    /\ UNCHANGED << question, model, agent_model, selector_value, model_cache,
                    cache_file, prefs_file, historyVars, response_lines, taskVars, now,
                    fetch_force, fetch_result,
                    clipboard, events >>

\* the lines typed in the sessions of CacheSpec
CacheLines ==
    { L_models, L_models \o L_bang, L_model_sp \o ModelY.id, L_model_sp \o << "1" >> }

CacheNext ==
    \/ Mount
    \/ \E value \in CacheLines, wrote \in WriteOutcomes : CommandSubmitted(value, wrote)
    \/ FetchLoadsTs
    \/ FetchLoadsData
    \/ \E resp \in CommandResponses : FetchCalls(resp)
    \/ FetchStoresData
    \/ \E wrote \in WriteOutcomes : FetchSaves(wrote)
    \/ ListModelsReturns
    \/ ClockAdvances

CacheSpec == CommandInit /\ [][CacheNext]_vars

(***************************************************************************)
(* The model selection on its own: sessions started with and without a     *)
(* saved preference and a cached catalog, in which models are selected at  *)
(* the prompt and in the selector.                                         *)
(***************************************************************************)

\* the preference files a session starts from: none, the ones earlier selections
\* leave, and one with an empty "model"
PrefsStarts ==
    { << >>, << ModelY.id >>, << ProviderPrefix \o ModelX.id >>, << T_unknown >>,
      << << >> >> }

\* the tokens of "/model <token>"
PrefsTokens ==
    { << "1" >>, << "2" >>, << "3" >>, T_unknown, ModelX.id,
      ProviderPrefix \o ModelY.id, SelectBlank }

\* the ids the selector can offer
KnownValues == { ModelX.id, ModelY.id }

PrefsLines == { L_models } \cup { L_model_sp \o token : token \in PrefsTokens }

PrefsInit ==
    \E cache \in { << >>, << Snapshot(FreshnessWindow) >> }, prefs \in PrefsStarts :
        InitFrom(<< >>, << >>, cache, prefs)

\* the user picks another option of the selector: the widget takes the value and
\* posts Select.Changed
SelectorPicked(value) ==
    LET options == BuildModelOptions(model_options, << >>)
    IN  /\ Interactive
        /\ events < MaxCommands
        /\ \E i \in 1..Len(options) : options[i][2] = value
        /\ value # selector_value
        /\ selector_value' = value
        /\ phase' = "select_changed"
        /\ events' = events + 1
        /\ UNCHANGED << question, model, agent_model, model_options, model_option_values,
                        model_cache, cache_file, prefs_file, historyVars,
                        conversation_lines, response_lines, taskVars, now, pump,
                        fetch_force, fetch_result, clipboard >>

\* FinnaTUI.on_select_changed
SelectChanged(wrote) ==
    /\ phase = "select_changed"
    /\ SelectModel(selector_value, wrote)
    /\ UNCHANGED events

PrefsNext ==
    \/ Mount
    \/ \E value \in PrefsLines, wrote \in WriteOutcomes : CommandSubmitted(value, wrote)
    \/ \E value \in KnownValues : SelectorPicked(value)
    \/ \E wrote \in WriteOutcomes : SelectChanged(wrote)
    \/ \E resp \in RemoteResponses, wrote \in WriteOutcomes : ListModelsFinish(resp, wrote)

PrefsSpec == PrefsInit /\ [][PrefsNext]_vars

(***************************************************************************)
(* The two logs on their own: sessions in which questions are asked, the   *)
(* request and its tool calls write to the logs, and the user stops,       *)
(* copies and clears.                                                      *)
(***************************************************************************)

\* mutant: the lines are joined newest first
JoinLinesNewestFirst(lines) ==
    [i \in 1..Len(lines) |-> [text |-> lines[Len(lines) + 1 - i], newline |-> i < Len(lines)]]

\* "\n".join(lines): every line but the last is followed by a newline
JoinLines(lines) ==
    [i \in 1..Len(lines) |-> [text |-> lines[i], newline |-> i < Len(lines)]]

\* _copy_to_clipboard(content) has run xclip
XclipRuns(content) == content # << >>

\* FinnaTUI.on_button_pressed, button "conversation-copy" (ran: xclip succeeds)
ConversationCopyPressed(ran) ==
    LET content == JoinLines(conversation_lines)
    IN  /\ Interactive
        /\ MayAct
        /\ events' = events + 1
        /\ clipboard' = IF XclipRuns(content) /\ ran THEN content ELSE clipboard
        /\ conversation_lines' =
             conversation_lines
             \o (IF XclipRuns(content) /\ ~ran
                 THEN << Sys("Failed to copy to clipboard.", << >>) >> ELSE << >>)
             \o << Sys("Copied conversation to clipboard.", << >>) >>
        /\ UNCHANGED << phase, question, catalogVars, historyVars, response_lines,
                        taskVars, now, pump, fetch_force, fetch_result >>

\* FinnaTUI.on_button_pressed, button "responses-copy"
ResponsesCopyPressed(ran) ==
    LET content == JoinLines(response_lines)
    IN  /\ Interactive
        /\ MayAct
        /\ events' = events + 1
        /\ clipboard' = IF XclipRuns(content) /\ ran THEN content ELSE clipboard
        /\ conversation_lines' =
             conversation_lines
             \o (IF XclipRuns(content) /\ ~ran
                 THEN << Sys("Failed to copy to clipboard.", << >>) >> ELSE << >>)
        /\ response_lines' =
             Append(response_lines, Sys("Copied responses to clipboard.", << >>))
        /\ UNCHANGED << phase, question, catalogVars, historyVars, taskVars, now, pump,
                        fetch_force, fetch_result >>

\* FinnaTUI.on_button_pressed, button "conversation-clear"
ConversationClearPressed ==
    /\ Interactive
    /\ MayAct
    /\ events' = events + 1
    /\ conversation_lines' = << >>
    /\ UNCHANGED << phase, question, catalogVars, historyVars, response_lines, taskVars,
                    now, pump, fetch_force, fetch_result, clipboard >>

\* FinnaTUI.on_button_pressed, button "responses-clear"
ResponsesClearPressed ==
    /\ Interactive
    /\ MayAct
    /\ events' = events + 1
    /\ response_lines' = << >>
    /\ UNCHANGED << phase, question, catalogVars, historyVars, conversation_lines,
                    taskVars, now, pump, fetch_force, fetch_result, clipboard >>

\* the lines typed in the sessions of TranscriptSpec
TranscriptLines == { L_hi, L_clear }

TranscriptInit == \E q \in { << >>, L_hi } : InitFrom(q, << >>, << >>, << >>)

TranscriptNext ==
    \/ Mount
    \/ MountQuestion
    \/ \E value \in TranscriptLines, wrote \in WriteOutcomes : InputSubmitted(value, wrote)
    \/ StopPressed
    \/ \E ran \in BOOLEAN : ConversationCopyPressed(ran)
    \/ \E ran \in BOOLEAN : ResponsesCopyPressed(ran)
    \/ ConversationClearPressed
    \/ ResponsesClearPressed
    \/ TaskNext

TranscriptSpec == TranscriptInit /\ [][TranscriptNext]_vars

(***************************************************************************)
(* The history file on its own: sessions restored from history files of up *)
(* to 1000 lines, started with and without a question on the command line, *)
(* in which questions are submitted.                                       *)
(***************************************************************************)

\* a question of two lines, as the command line can hold it
L_two_lines == << "h", "i", "\n", "y", "o" >>

\* the sessions start from a history file and, with the short ones, a question
PersistInit ==
    \/ \E n \in HistoryStarts : InitFrom(<< >>, HistoryFileOf(n), << >>, << >>)
    \/ \E n \in { 0, 1 }, q \in { L_hi, L_two_lines } :
          InitFrom(q, HistoryFileOf(n), << >>, << >>)

PersistNext ==
    \/ Mount
    \/ MountQuestion
    \/ \E wrote \in WriteOutcomes :
           AppendHistory(QuestionNo(Len(history_entries) + 1), wrote)
    \/ StopPressed
    \/ TaskNext

PersistSpec == PersistInit /\ [][PersistNext]_vars

(***************************************************************************)
(* _normalize_openrouter_model on its own: sessions started with no cached *)
(* catalog, a small one and a large one, in which ids of every shape are   *)
(* selected with "/model <id>", the current model among them.              *)
(***************************************************************************)

\* the ids given to _normalize_openrouter_model: of the catalogs and not, bare,
\* qualified, qualified for another provider or in another letter case, empty
NormalizeIds ==
    LET bare == { ModelX.id, ModelY.id, CatalogBig[1].id, T_unknown }
    IN  bare \cup { ProviderPrefix \o id : id \in bare }
             \cup { DefaultModel, ProviderPrefix, << >>,
                    << "O", "p", "e", "n", "R", "o", "u", "t", "e", "r", ":" >> \o ModelX.id }

\* the cache files the sessions start from
NormalizeStarts ==
    { << >>, << Snapshot(FreshnessWindow) >>,
      << [ts |-> FreshnessWindow, data |-> CatalogBig] >> }

NormalizeInit == \E cache \in NormalizeStarts : InitFrom(<< >>, << >>, cache, << >>)

NormalizeNext ==
    \/ Mount
    \/ \E id \in NormalizeIds, wrote \in WriteOutcomes :
           CommandSubmitted(L_model_sp \o id, wrote)

NormalizeSpec == NormalizeInit /\ [][NormalizeNext]_vars


(***************************************************************************)
(* Vocabulary of the properties.                                           *)
(***************************************************************************)
\* the request tasks that have not finished, and the agent runs under way
Unfinished == {t \in DOMAIN tasks : tasks[t].pc # "done"}
ActiveRuns == {t \in DOMAIN tasks : tasks[t].pc \in { "running", "tool" }}

BusyMsg == "Request already in progress. Press Stop to cancel."
CancelledMsg == "Request cancelled."
NoRequestMsg == "No request in progress."

\* the lines a step adds to a log (none when the step empties or keeps it)
Added(old, new) ==
    IF Len(new) > Len(old) /\ SubSeq(new, 1, Len(old)) = old
    THEN SubSeq(new, Len(old) + 1, Len(new))
    ELSE << >>

\* the step appends exactly one entry to the history log
HistoryGrowsByOne ==
    /\ Len(history_entries') = Len(history_entries) + 1
    /\ SubSeq(history_entries', 1, Len(history_entries)) = history_entries
    /\ history_index' = Len(history_entries')

\* where the lines of request t of the given kinds stand in the conversation log
LinesOf(t, kinds) ==
    {i \in 1..Len(conversation_lines) :
        conversation_lines[i].req = t /\ conversation_lines[i].kind \in kinds}

\* the places of a task's trace that hold one of the given kinds
TraceOf(t, kinds) == {i \in 1..Len(tasks[t].trace) : tasks[t].trace[i] \in kinds}

RequestKinds == { "User", "Assistant", "Error", "ToolCall", "System" }

(***************************************************************************)
(* C1: at most one request task is unfinished and at most one agent run is *)
(* active, in every reachable state.                                       *)
(***************************************************************************)
C1_SingleInFlight == Cardinality(Unfinished) <= 1 /\ Cardinality(ActiveRuns) <= 1

\* a question was turned away while another request was running
C1_Witness ==
    /\ Cardinality(ActiveRuns) = 1
    /\ \E i \in 1..Len(conversation_lines) : conversation_lines[i].msg = BusyMsg

(***************************************************************************)
(* C2: a question submitted while a request is unfinished (also one whose  *)
(* cancellation was requested) gets the Busy System line and an entry in   *)
(* the history log and nothing else: no task is made or changed, nothing   *)
(* is forwarded; and a task is only ever made for the question submitted   *)
(* in that very step, so a rejected question is never run later.           *)
(***************************************************************************)
C2_BusyRejected ==
    [][ /\ (history_entries' # history_entries /\ Unfinished # {}) =>
              /\ HistoryGrowsByOne
              /\ Len(Added(conversation_lines, conversation_lines')) = 1
              /\ conversation_lines'[Len(conversation_lines')].msg = BusyMsg
              /\ conversation_lines'[Len(conversation_lines')].kind = "System"
              /\ UNCHANGED << tasks, current_task, forwarded >>
        /\ (\E i \in 1..Len(Added(conversation_lines, conversation_lines')) :
                Added(conversation_lines, conversation_lines')[i].msg = BusyMsg) =>
              /\ Unfinished # {}
              /\ HistoryGrowsByOne
              /\ UNCHANGED << tasks, current_task, forwarded >>
        /\ (DOMAIN tasks' # DOMAIN tasks) =>
              /\ Unfinished = {}
              /\ HistoryGrowsByOne
              /\ DOMAIN tasks' = DOMAIN tasks \cup { Len(history_entries') }
              /\ tasks'[Len(history_entries')].input
                    = history_entries'[Len(history_entries')]
        /\ (forwarded' # forwarded) =>
              /\ Len(forwarded') = Len(forwarded) + 1
              /\ forwarded'[Len(forwarded')].req \in DOMAIN tasks
              /\ forwarded'[Len(forwarded')].input
                    = history_entries[forwarded'[Len(forwarded')].req]
      ]_vars

\* a question was turned away after Stop, before the cancelled request has ended
C2_Witness ==
    /\ \E t \in Unfinished : tasks[t].must_cancel /\ tasks[t].pc = "running"
    /\ Len(history_entries) \notin DOMAIN tasks
    /\ conversation_lines # << >>
    /\ conversation_lines[Len(conversation_lines)].msg = BusyMsg

(***************************************************************************)
(* C3: an unfinished request leads to a state with no unfinished request;  *)
(* the step that ends a request leaves the session running; and a question *)
(* submitted when no request is unfinished is accepted: a task is made for *)
(* it and no Busy line is written.                                         *)
(***************************************************************************)
C3_BackToIdle ==
    /\ (Unfinished # {}) ~> (Unfinished = {})
    /\ [][ /\ (\E t \in Unfinished : tasks'[t].pc = "done") => phase' = phase
           /\ (history_entries' # history_entries /\ Unfinished = {}) =>
                 /\ Len(history_entries') \in DOMAIN tasks' \ DOMAIN tasks
                 /\ current_task' = Len(history_entries')
                 /\ conversation_lines' = conversation_lines
         ]_vars

\* after a request that failed, the next question has been accepted
C3_Witness ==
    \E t1, t2 \in DOMAIN tasks :
        t1 < t2 /\ tasks[t1].outcome = "error" /\ tasks[t2].pc = "running"

(***************************************************************************)
(* C4 (as claimed): whenever a request whose cancellation was requested    *)
(* (by Stop, in a session that has not been exited) ends, the step that    *)
(* ends it appends the System "Request cancelled." line of that request    *)
(* (and so no Error line).                                                 *)
(***************************************************************************)
C4_CancelAlwaysLogged ==
    [][ \A t \in DOMAIN tasks :
            (/\ phase = "mounted"
             /\ tasks[t].pc # "done"
             /\ tasks[t].must_cancel
             /\ tasks'[t].pc = "done") =>
                conversation_lines' =
                    Append(conversation_lines,
                           Entry("System", CancelledMsg, << >>, 0, t, 0))
      ]_vars

(***************************************************************************)
(* C5: the User line of a request is written when its question is          *)
(* forwarded, before every other line of the request; a question is        *)
(* forwarded once; a run that returns leaves exactly one outcome line, an  *)
(* Assistant line, a run that raises exactly one, an Error line; no        *)
(* request has two outcome lines.                                          *)
(***************************************************************************)
C5_UserThenOneOutcome ==
    \A t \in DOMAIN tasks :
        LET trace == tasks[t].trace
            runs == {i \in 1..Len(forwarded) : forwarded[i].req = t}
        IN  /\ Cardinality(runs) = (IF trace = << >> THEN 0 ELSE 1)
            /\ trace # << >> => trace[1] = "User"
            /\ TraceOf(t, { "User" }) \subseteq { 1 }
            /\ Cardinality(TraceOf(t, { "Assistant", "Error" })) <= 1
            /\ tasks[t].outcome = "ok" =>
                  /\ trace[Len(trace)] = "Assistant"
                  /\ TraceOf(t, { "Error", "Cancelled" }) = {}
            /\ tasks[t].outcome = "error" =>
                  /\ trace[Len(trace)] = "Error"
                  /\ TraceOf(t, { "Assistant", "Cancelled" }) = {}
            /\ tasks[t].pc # "done" => TraceOf(t, { "Assistant", "Error" }) = {}
            /\ Cardinality(LinesOf(t, { "User" })) <= 1
            /\ Cardinality(LinesOf(t, { "Assistant", "Error" })) <= 1
            /\ \A i \in LinesOf(t, { "User" }) :
                   \A j \in LinesOf(t, RequestKinds \ { "User" }) : i < j
            /\ \A j \in LinesOf(t, { "Assistant", "Error" }) :
                   \A i \in LinesOf(t, RequestKinds) : i <= j

\* a run with a tool call has returned, and its lines are in the log
C5_Witness ==
    \E t \in DOMAIN tasks :
        /\ tasks[t].trace = << "User", "ToolCall", "ToolResponse", "Assistant" >>
        /\ LinesOf(t, { "User" }) # {}
        /\ LinesOf(t, { "Assistant" }) # {}


(***************************************************************************)
(* C6 (as claimed): Stop pressed when no request is unfinished changes     *)
(* nothing of the session: not the transcript, the requests, the model,    *)
(* the history or the catalog.                                             *)
(***************************************************************************)
C6_StopIdleChangesNothing ==
    [][ (StopPressed /\ Unfinished = {}) =>
            UNCHANGED << conversation_lines, response_lines, taskVars, catalogVars,
                         historyVars, phase >>
      ]_vars

(***************************************************************************)
(* C6 (amended): Stop pressed when no request is unfinished makes and      *)
(* cancels no request and leaves the model, the history, the catalog, the  *)
(* persisted files and the responses log as they were; its one effect is   *)
(* the System line "No request in progress." appended to the conversation  *)
(* log, once per press.                                                    *)
(***************************************************************************)
C6_StopIdleOnlyLogs ==
    [][ (StopPressed /\ Unfinished = {}) =>
            /\ conversation_lines' =
                 Append(conversation_lines, Sys(NoRequestMsg, << >>))
            /\ UNCHANGED << response_lines, taskVars, catalogVars, historyVars, phase,
                            question, now, pump, fetch_force, fetch_result,
                    clipboard >>
      ]_vars

\* Stop was pressed twice with no request unfinished
C6_Witness ==
    /\ Unfinished = {}
    /\ Len(conversation_lines) >= 2
    /\ conversation_lines[Len(conversation_lines)].msg = NoRequestMsg
    /\ conversation_lines[Len(conversation_lines) - 1].msg = NoRequestMsg

(***************************************************************************)
(* C7: in every task's record of what it logged, a tool response or tool   *)
(* error line comes directly after a tool call line; every response or     *)
(* error line in the responses log belongs to a call whose call line was   *)
(* written, and none is there for a call the transport has not finished.   *)
(***************************************************************************)
C7_CallBeforeResponse ==
    /\ \A t \in DOMAIN tasks :
          /\ \A i \in TraceOf(t, { "ToolResponse", "ToolError" }) :
                i > 1 /\ tasks[t].trace[i - 1] = "ToolCall"
          /\ Cardinality(TraceOf(t, { "ToolCall" })) = tasks[t].ncalls
          /\ Cardinality(TraceOf(t, { "ToolResponse", "ToolError" }))
                <= Cardinality(TraceOf(t, { "ToolCall" }))
    /\ \A i \in 1..Len(response_lines) :
          LET e == response_lines[i]
          IN  e.kind \in { "ToolResponse", "ToolError" } =>
                  /\ e.req \in DOMAIN tasks
                  /\ 1 <= e.call
                  /\ e.call <= Cardinality(TraceOf(e.req, { "ToolCall" }))
                  /\ tasks[e.req].pc = "tool" => e.call < tasks[e.req].ncalls
    /\ \A i \in 1..Len(conversation_lines) :
          conversation_lines[i].kind = "ToolCall" =>
              conversation_lines[i].call
                  <= Cardinality(TraceOf(conversation_lines[i].req, { "ToolCall" }))

\* a tool call has failed: its call line and its error line are in the logs
C7_Witness ==
    \E i \in 1..Len(conversation_lines), j \in 1..Len(response_lines) :
        /\ conversation_lines[i].kind = "ToolCall"
        /\ response_lines[j].kind = "ToolError"
        /\ response_lines[j].req = conversation_lines[i].req
        /\ response_lines[j].call = conversation_lines[i].call


(***************************************************************************)
(* C8: when a run in which a tool call has raised ends in failure, the     *)
(* step appends one Error line to the conversation log, standing after     *)
(* every tool call line of the request and after the tool call in the      *)
(* task's record; the line holds the description of the exception the run  *)
(* ended with, followed by that of its proximate cause (__cause__, else    *)
(* __context__) when it has one; the model, the agent's model and the      *)
(* history log are unchanged, and no request is unfinished afterwards.     *)
(***************************************************************************)
C8_ToolFailureLogged ==
    [][ \A t \in DOMAIN tasks :
            (/\ tasks[t].pc = "running"
             /\ tasks[t].toolerr # << >>
             /\ tasks'[t].outcome = "error") =>
                LET line == conversation_lines'[Len(conversation_lines')]
                    exc == tasks'[t].raised[1]
                    trace == tasks'[t].trace
                IN  /\ conversation_lines' = Append(conversation_lines, line)
                    /\ line.kind = "Error" /\ line.req = t
                    /\ line.arg[1] = << exc.cls, exc.msg >>
                    /\ IF exc.cause # << >>
                       THEN /\ Len(line.arg) = 2
                            /\ line.arg[2]
                                 = << "Caused by", exc.cause[1].cls, exc.cause[1].msg >>
                       ELSE IF exc.context # << >>
                       THEN /\ Len(line.arg) = 2
                            /\ line.arg[2]
                                 = << "Caused by", exc.context[1].cls, exc.context[1].msg >>
                       ELSE Len(line.arg) = 1
                    /\ \E i \in 1..Len(trace) :
                          /\ trace[i] = "ToolCall"
                          /\ i + 1 < Len(trace)
                          /\ trace[i + 1] = "ToolError"
                          /\ trace[Len(trace)] = "Error"
                    /\ \A i \in 1..Len(conversation_lines) :
                          conversation_lines[i].req = t =>
                              conversation_lines[i].kind \in { "User", "ToolCall" }
                    /\ UNCHANGED << model, agent_model, historyVars, response_lines,
                                    phase >>
                    /\ tasks'[t].pc = "done"
                    /\ current_task' = 0
                    /\ \A u \in DOMAIN tasks' : tasks'[u].pc = "done"
      ]_vars

\* a run has failed with the exception of its tool call: the call line and the
\* two-part Error line are in the conversation log, in this order
C8_Witness ==
    \E t \in DOMAIN tasks :
        /\ tasks[t].outcome = "error"
        /\ tasks[t].toolerr # << >>
        /\ tasks[t].raised = tasks[t].toolerr
        /\ \E i \in LinesOf(t, { "ToolCall" }), j \in LinesOf(t, { "Error" }) :
              i < j /\ Len(conversation_lines[j].arg) = 2

(***************************************************************************)
(* C9: the step that handles /clear (in any letter case), whether or not a *)
(* request is running, empties the transcript (both logs) and changes      *)
(* nothing else: not the history log or its cursor, the persisted files,   *)
(* the model, the catalog, or the requests.                                *)
(***************************************************************************)
C9_ClearOnlyTruncates ==
    [][ (\E value \in InputLines, wrote \in WriteOutcomes :
            Lower(Strip(value)) = L_clear /\ InputSubmitted(value, wrote)) =>
            /\ conversation_lines' = << >>
            /\ response_lines' = << >>
            /\ UNCHANGED << historyVars, catalogVars, taskVars, phase, question, now,
                            pump, fetch_force, fetch_result,
                    clipboard >>
      ]_vars

\* /clear has emptied the logs of a request that is still running
C9_Witness ==
    /\ conversation_lines = << >>
    /\ response_lines = << >>
    /\ \E t \in ActiveRuns :
          tasks[t].trace = << "User", "ToolCall", "ToolError" >>
    /\ history_index < Len(history_entries)

\* the lines /clear, /models, /models! and /model <token>, in any letter case
LocalCommand(value) ==
    LET line == Lower(Strip(value))
    IN  \/ line \in { L_clear, L_models, L_models \o L_bang }
        \/ StartsWith(line, L_model_sp) /\ Strip(AfterFirstSpace(line)) # << >>

(***************************************************************************)
(* C10: the steps that handle /clear, /models, /models! and /model <token> *)
(* (the command itself, and the end of the fetch /models starts) leave the *)
(* requests as they are (none made, cancelled or replaced), forward        *)
(* nothing to the agent, write no Busy line and leave the history log and  *)
(* its file untouched, also while a request is running.                    *)
(***************************************************************************)
C10_CommandsAreLocal ==
    [][ (\/ \E value \in InputLines, wrote \in WriteOutcomes :
               LocalCommand(value) /\ InputSubmitted(value, wrote)
         \/ \E resp \in RemoteResponses, wrote \in WriteOutcomes :
               ListModelsFinish(resp, wrote)) =>
            /\ UNCHANGED << taskVars, history_entries, history_index, history_file >>
            /\ \A i \in 1..Len(Added(conversation_lines, conversation_lines')) :
                  Added(conversation_lines, conversation_lines')[i].msg # BusyMsg
            /\ \A i \in 1..Len(conversation_lines') :
                  conversation_lines'[i].kind = "User" =>
                      \E j \in 1..Len(conversation_lines) :
                          conversation_lines[j] = conversation_lines'[i]
      ]_vars

\* while a request is running, /models has listed the catalog and /model has
\* switched the model
C10_Witness ==
    /\ ActiveRuns # {}
    /\ \E i, j \in 1..Len(conversation_lines) :
          /\ conversation_lines[i].msg = "OpenRouter models (first 25):"
          /\ conversation_lines[j].msg = "Selected model"
          /\ \E k \in LinesOf(current_task, { "User" }) : k < i /\ k < j
    /\ Len(history_entries) = 1

C12_HistoryBounded ==
    /\ [](Len(history_entries) <= HistoryFileCap)
    /\ [][ (Len(history_entries) = HistoryFileCap
            /\ history_entries' # history_entries) =>
              /\ Len(history_entries') = HistoryFileCap
              /\ SubSeq(history_entries', 1, HistoryFileCap - 1) = Tail(history_entries)
         ]_vars

\* what does hold of the bound: the history file never has more than 1000 lines,
\* and a write leaves in it the last 1000 entries of the log
C12_FileBounded ==
    /\ [](Len(history_file) <= HistoryFileCap)
    /\ [][ history_file' # history_file =>
              /\ history_file' = SavedHistory(history_entries')
              /\ Len(history_entries') > HistoryFileCap =>
                    /\ Len(history_file') = HistoryFileCap
                    /\ history_file'[1] = history_entries'[Len(history_entries')
                                                            - HistoryFileCap + 1]
         ]_vars

\* the log holds 1001 entries, the oldest still first, and the file the last 1000
C12_Witness ==
    /\ Len(history_entries) = HistoryFileCap + 1
    /\ history_entries[1] = QuestionNo(1)
    /\ Len(history_file) = HistoryFileCap
    /\ history_file[1] = QuestionNo(2)

\* clamp(cursor + delta, 0, len(entries))
Clamp(i, lo, hi) == IF i < lo THEN lo ELSE IF i > hi THEN hi ELSE i

\* what navigate yields at a cursor: the entry there, or the empty value past-end
EntryAt(i) == IF i >= Len(history_entries) THEN << >> ELSE history_entries[i + 1]

(***************************************************************************)
(* C13 (as claimed): the cursor lies in [0, len(entries)]; an append       *)
(* resets it to len(entries); navigate(delta) moves it to                  *)
(* clamp(cursor + delta, 0, len(entries)) and puts in the prompt the entry *)
(* at the new position, or the empty value when that position is past-end, *)
(* for every log.                                                          *)
(***************************************************************************)
C13_NavigateClampsAndYields ==
    /\ [](history_index \in 0..Len(history_entries))
    /\ [][ history_entries' # history_entries =>
              history_index' = Len(history_entries') ]_vars
    /\ [][ \A delta \in { -1, 1 } :
              NavigateHistory(delta) =>
                  /\ history_index' =
                        Clamp(history_index + delta, 0, Len(history_entries))
                  /\ prompt_value' = EntryAt(history_index')
                  /\ UNCHANGED << history_entries, history_file >>
         ]_vars

(***************************************************************************)
(* C13 (amended): the cursor lies in [0, len(entries)]; an append resets   *)
(* it to len(entries); on a log that is not empty navigate(delta) moves    *)
(* the cursor to clamp(cursor + delta, 0, len(entries)) and puts in the    *)
(* prompt the entry at the new position, or the empty value when that      *)
(* position is past-end; on an empty log navigate changes nothing: the     *)
(* cursor stays 0 and the prompt keeps the text it holds.                  *)
(***************************************************************************)
C13_NavigateNonEmpty ==
    /\ [](history_index \in 0..Len(history_entries))
    /\ [][ history_entries' # history_entries =>
              history_index' = Len(history_entries') ]_vars
    /\ [][ \A delta \in { -1, 1 } :
              NavigateHistory(delta) =>
                  /\ history_index' =
                        Clamp(history_index + delta, 0, Len(history_entries))
                  /\ IF history_entries # << >>
                     THEN prompt_value' = EntryAt(history_index')
                     ELSE prompt_value' = prompt_value
                  /\ UNCHANGED << history_entries, history_file >>
         ]_vars

\* on a log of one entry two keys have been pressed and the cursor is on the
\* entry: "previous" twice, the second clamped at 0, or "next" clamped at
\* past-end and then "previous"
C13_Witness ==
    /\ Len(history_entries) = 1
    /\ events = MaxEvents
    /\ history_index = 0
    /\ prompt_value = history_entries[1]

(***************************************************************************)
(* Vocabulary of the catalog properties.                                   *)
(***************************************************************************)
CachedMsg == "Using cached OpenRouter model list."
FailedMsg == "Failed to fetch models:"
ListingMsg == "OpenRouter models (first 25):"
InvalidMsg == "Invalid model selection."
SelectedMsg == "Selected model"

\* the lines the step appends to the conversation log
AddedLines == Added(conversation_lines, conversation_lines')

\* the step is the end of a catalog fetch
FetchEnds == pump = "fetching" /\ pump' = "idle"

\* the step reports the listing as served from the cache: no remote call
ServedFromCache == \E i \in 1..Len(AddedLines) : AddedLines[i].msg = CachedMsg

\* the step reports a failed fetch
FailureReported == \E i \in 1..Len(AddedLines) : AddedLines[i].msg = FailedMsg

\* a snapshot with entries, less than 3600 seconds old
FreshSnapshot(snap) == snap.data # << >> /\ now - snap.ts < FreshnessWindow

\* the snapshots that exist: the one in memory and the persisted one
Snapshots == { model_cache } \cup { cache_file[i] : i \in 1..Len(cache_file) }

\* the well-formed answers of the remote
WellFormedResponses == { r \in CommandResponses \ MalformedResponses : r.ok }

(***************************************************************************)
(* C14 (as claimed): a fetch that is not forced is served from the cache,  *)
(* with no remote call, exactly when a snapshot less than 3600 seconds old *)
(* exists; a forced fetch is never served from the cache; and every        *)
(* successful remote response becomes the snapshot of its time, so that a  *)
(* second fetch within the window is served from it (one remote call,      *)
(* servedFromCache false then true).                                       *)
(***************************************************************************)
C14_OneRemoteCallPerWindow ==
    [][ /\ (FetchEnds /\ ~fetch_force) =>
              (ServedFromCache <=> \E snap \in Snapshots : FreshSnapshot(snap))
        /\ (FetchEnds /\ fetch_force) => ~ServedFromCache
        /\ \A resp \in WellFormedResponses, wrote \in WriteOutcomes :
              (ListModelsFinish(resp, wrote) /\ ~ServedFromCache) =>
                  /\ model_cache' = [ts |-> now, data |-> resp.data]
                  /\ model_options' = resp.data
      ]_vars

\* two fetches at the same time of the clock, neither forced, have both called
\* the remote, which answered both with an empty listing
C14_Witness ==
    /\ pump = "idle"
    /\ events = 2
    /\ now = FreshnessWindow
    /\ Len(conversation_lines) = 4
    /\ conversation_lines[2].msg = "no models returned from OpenRouter."
    /\ conversation_lines[4].msg = "no models returned from OpenRouter."
    /\ ~fetch_force

(***************************************************************************)
(* C15 (as claimed): a fetch that ends in a remote failure leaves the      *)
(* in-memory cache, the cache file and the listing of the session exactly  *)
(* as they were, appends the System line of the failure and nothing else,  *)
(* and leaves the session running.                                         *)
(***************************************************************************)
C15_FailureKeepsSnapshot ==
    [][ \A resp \in { r \in CommandResponses : ~r.ok }, wrote \in WriteOutcomes :
            (ListModelsFinish(resp, wrote) /\ ~ServedFromCache) =>
                /\ FailureReported
                /\ Len(AddedLines) = 1
                /\ UNCHANGED << model_cache, cache_file, model_options,
                                model_option_values, phase >>
      ]_vars

\* what does hold of a failed fetch: the failure is reported, the cache file and
\* the listing are as they were, and the in-memory cache is the one the fetch
\* has re-read from the cache file (its own when there is no file)
C15_FailureKeepsFile ==
    [][ \A resp \in { r \in CommandResponses : ~r.ok }, wrote \in WriteOutcomes :
            (ListModelsFinish(resp, wrote) /\ ~ServedFromCache) =>
                /\ FailureReported
                /\ Len(AddedLines) = 1
                /\ UNCHANGED << cache_file, model_options, model_option_values, phase >>
                /\ model_cache' = IF cache_file = << >> THEN model_cache ELSE cache_file[1]
      ]_vars

\* a fetch has failed, and the in-memory cache is older than the listing the
\* session shows
C15_Witness ==
    /\ conversation_lines # << >>
    /\ conversation_lines[Len(conversation_lines)].msg = FailedMsg
    /\ model_options = CatalogBig
    /\ model_cache = Snapshot(0)

(***************************************************************************)
(* C16 (as claimed): a fetch whose remote answer is malformed ("data"      *)
(* missing, or not a list of descriptors) ends like a failed fetch: the    *)
(* failure is reported, the listing and the caches are not replaced, the   *)
(* session runs on; and the listing of the session is in every state       *)
(* either empty or a complete list of descriptors.                         *)
(***************************************************************************)
C16_MalformedIsFailure ==
    /\ [][ \A resp \in MalformedResponses, wrote \in WriteOutcomes :
              (ListModelsFinish(resp, wrote) /\ ~ServedFromCache) =>
                  /\ FailureReported
                  /\ UNCHANGED << model_options, model_option_values, cache_file, phase >>
                  /\ model_cache'.data = LoadModelCache(model_cache, cache_file).data
         ]_vars
    /\ [](model_options \in { << >>, CatalogA, CatalogBig })

\* the app has ended on an exception with a list of strings as its listing and
\* as its cache, in memory and on disk
C16_Witness ==
    /\ phase = "crashed"
    /\ model_options = << [str |-> << "a", "/", "x" >>] >>
    /\ model_cache.data = model_options
    /\ cache_file # << >>
    /\ cache_file[1].data = model_options

\* where the last listing starts in the conversation log (0: none)
LastListing ==
    LET at == {i \in 1..Len(conversation_lines) : conversation_lines[i].msg = ListingMsg}
    IN  IF at = {} THEN 0 ELSE SetMax(at)

\* the last listing has an entry numbered n
Listed(n) ==
    /\ LastListing > 0
    /\ LastListing + n <= Len(conversation_lines)
    /\ conversation_lines[LastListing + n].msg = "listing"
    /\ conversation_lines[LastListing + n].arg[1] = Fmt2d(n)

\* the id rendered as number n in the last listing
ListedId(n) == conversation_lines[LastListing + n].arg[2]

(***************************************************************************)
(* C18 (as claimed): "/model n", for a number n of the last listing in the *)
(* conversation log, makes the id rendered as number n the current model   *)
(* (with the provider prefix or without).                                  *)
(***************************************************************************)
C18_IndexFollowsListing ==
    [][ \A token \in Tokens, wrote \in WriteOutcomes :
            (/\ CommandSubmitted(L_model_sp \o token, wrote)
             /\ IsDigit(token)
             /\ 1 <= ToInt(token) /\ ToInt(token) <= ListingCap
             /\ Listed(ToInt(token))) =>
                model' \in { ListedId(ToInt(token)),
                             ProviderPrefix \o ListedId(ToInt(token)) }
      ]_vars

\* after a listing that shows a/x as number 1, "/model 1" has selected b/y
C18_Witness ==
    /\ Listed(1)
    /\ ListedId(1) = ModelX.id
    /\ conversation_lines[Len(conversation_lines)].msg = SelectedMsg
    /\ model = ProviderPrefix \o ModelY.id
    /\ events = 2

\* the token is a number of the listing the session holds
InRange(token) ==
    /\ IsDigit(token)
    /\ 1 <= ToInt(token)
    /\ ToInt(token) <= Min2(ListingCap, Len(model_options))

\* the ids of the snapshot /model looks the id up in
KnownIds ==
    LET cache == LoadModelCache(model_cache, cache_file)
    IN  {cache.data[i].id : i \in 1..Len(cache.data)}

\* the step makes the token, as a literal id, the current model: as it is, or
\* with the provider prefix when it is an id of the snapshot
TakenLiterally(token) ==
    /\ model' = IF token \in KnownIds THEN ProviderPrefix \o token ELSE token
    /\ AddedLines = << Sys(SelectedMsg, << model' >>) >>

(***************************************************************************)
(* C19 (as claimed): "/model token", for every token that is not a number  *)
(* of the listing, makes the token itself the current model, whether a     *)
(* catalog is loaded or not.                                               *)
(***************************************************************************)
C19_OtherTokensLiteral ==
    [][ \A token \in Tokens, wrote \in WriteOutcomes :
            (CommandSubmitted(L_model_sp \o token, wrote) /\ ~InRange(token)) =>
                TakenLiterally(token)
      ]_vars

(***************************************************************************)
(* C19 (amended): "/model token" makes the token itself the current model  *)
(* (prefixed with the provider's name when it is an id of the cached       *)
(* catalog, with no check that it exists otherwise) when the token is not  *)
(* a number, or is a number and no catalog is loaded; when a catalog is    *)
(* loaded, a number outside [1, min(25, len)] is rejected: the System line *)
(* "Invalid model selection." is written and the model is unchanged; the   *)
(* token "Select.BLANK" is ignored.                                        *)
(***************************************************************************)
C19_LiteralUnlessNumber ==
    [][ \A token \in Tokens, wrote \in WriteOutcomes :
            (CommandSubmitted(L_model_sp \o token, wrote) /\ ~InRange(token)) =>
                IF token = SelectBlank
                THEN UNCHANGED << model, agent_model, prefs_file, conversation_lines >>
                ELSE IF IsDigit(token) /\ model_options # << >>
                THEN /\ AddedLines = << Sys(InvalidMsg, << >>) >>
                     /\ UNCHANGED << model, agent_model, prefs_file >>
                ELSE TakenLiterally(token)
      ]_vars

\* with a catalog loaded, an unknown id has been selected and then a number
\* past the end of the listing has been rejected
C19_Witness ==
    /\ model_options = CatalogA
    /\ model = T_unknown
    /\ Len(conversation_lines) = 2
    /\ conversation_lines[1] = Sys(SelectedMsg, << T_unknown >>)
    /\ conversation_lines[2].msg = InvalidMsg

\* the line is one of /exit, /clear, /models, /models!, /model <token>
ExactCommand(line) ==
    \/ Lower(line) \in { L_exit, L_clear, L_models, L_models \o L_bang }
    \/ StartsWith(Lower(line), L_model_sp) /\ Strip(AfterFirstSpace(line)) # << >>

(***************************************************************************)
(* C20 (as claimed): a submitted line is handled as a command exactly when *)
(* it is one of /exit, /clear, /models, /models!, /model <token> (in any   *)
(* letter case); every other line is a question: it is appended to the     *)
(* history log and a request is made for it (or the Busy line written);    *)
(* a fetch starts only for /models and /models!, forced only for /models!. *)
(***************************************************************************)
C20_ClosedCommandSet ==
    [][ \A value \in CommandLines, wrote \in WriteOutcomes :
            CommandSubmitted(value, wrote) =>
                /\ ExactCommand(value) <=> history_entries' = history_entries
                /\ ~ExactCommand(value) =>
                      /\ history_entries' = Append(history_entries, value)
                      /\ \/ /\ DOMAIN tasks' # DOMAIN tasks
                            /\ tasks'[current_task'].input = value
                         \/ /\ AddedLines # << >>
                            /\ AddedLines[1].msg = BusyMsg
                /\ pump' = "fetching" =>
                      /\ Lower(value) \in { L_models, L_models \o L_bang }
                      /\ fetch_force' <=> Lower(value) = L_models \o L_bang
      ]_vars


\* the in-memory snapshot has the timestamp of one snapshot and the entries of
\* another: the worker thread is between the two assignments
Torn ==
    \/ pump = "loading" /\ model_cache.data # cache_file[1].data
    \/ pump = "storing" /\ model_cache.data # fetch_result.data

\* the step is the worker thread's second assignment, which completes the snapshot
CompletesSnapshot ==
    /\ pump \in { "loading", "storing" }
    /\ pump' \in { "loaded", "saving" }
    /\ model_cache'.ts = model_cache.ts
    /\ model_cache'.data = IF pump = "loading" THEN cache_file[1].data
                                               ELSE fetch_result.data
    /\ UNCHANGED << cache_file, model, model_options, conversation_lines >>

Resolved(token) ==
    IF IsDigit(token) /\ model_options # << >>
    THEN model_options[ToInt(token)].id
    ELSE token

\* the selection of the token is a successful one
Succeeds(token) ==
    /\ token \notin { << >>, SelectBlank }
    /\ (IsDigit(token) /\ model_options # << >>) => InRange(token)

\* the id with the provider's name in front when it is an id of the snapshot
Qualified(id) ==
    IF StartsWith(id, ProviderPrefix) \/ id \notin KnownIds THEN id
    ELSE ProviderPrefix \o id

\* what the three hold after a selection of the token
SelectionAgrees(token, wrote) ==
    IF Succeeds(token)
    THEN /\ model' = Qualified(Resolved(token))
         /\ agent_model' = << model' >>
         /\ prefs_file' = IF wrote THEN << model' >> ELSE prefs_file
         /\ phase' = "mounted"
    ELSE UNCHANGED << model, agent_model, prefs_file >>

(***************************************************************************)
(* C21: a successful selection, at the prompt or in the selector, makes    *)
(* the chosen id (provider-qualified by normalize) the current model and   *)
(* the agent's model, and the saved preference when the write succeeds; a  *)
(* failed write leaves the preference file as it was and the selection in  *)
(* place; a selection that is invalid or ignored changes none of the three;*)
(* nothing but a selection changes them after the start; the agent's model *)
(* is the current model in every state of a mounted session; and at the    *)
(* start a saved preference becomes the current model as it is, with no    *)
(* fetch started.                                                          *)
(***************************************************************************)
C21_SelectionIsCurrentModel ==
    /\ [][ \A token \in PrefsTokens, wrote \in WriteOutcomes :
              CommandSubmitted(L_model_sp \o token, wrote) => SelectionAgrees(token, wrote)
         ]_vars
    /\ [][ \A wrote \in WriteOutcomes :
              SelectChanged(wrote) => SelectionAgrees(selector_value, wrote)
         ]_vars
    /\ [][ (phase # "constructed"
            /\ << model, agent_model, prefs_file >>' # << model, agent_model, prefs_file >>)
           => conversation_lines' =
                 Append(conversation_lines, Sys(SelectedMsg, << model' >>))
         ]_vars
    /\ [][ phase = "constructed" =>
             /\ model' = IF prefs_file # << >> /\ prefs_file[1] # << >>
                         THEN prefs_file[1] ELSE DefaultModel
             /\ agent_model' = << model' >>
             /\ prefs_file' = prefs_file
             /\ pump' = "idle"
         ]_vars
    /\ [](phase \in { "mounted", "select_changed" } => agent_model = << model >>)

\* a saved preference was restored, a model was selected with the write of the
\* preference failing, and a number out of range was then rejected
C21_Witness ==
    /\ Len(conversation_lines) = 3
    /\ conversation_lines[1] = Sys("Restored model", << ModelY.id >>)
    /\ conversation_lines[2] = Sys(SelectedMsg, << ProviderPrefix \o ModelX.id >>)
    /\ conversation_lines[3].msg = InvalidMsg
    /\ model = ProviderPrefix \o ModelX.id
    /\ agent_model = << model >>
    /\ prefs_file = << ModelY.id >>


\* new is old, or old with entries put at its end
Extends(old, new) == Len(new) >= Len(old) /\ SubSeq(new, 1, Len(old)) = old

\* the step is an explicit clear of the conversation log
ClearsConversation ==
    \/ ConversationClearPressed
    \/ \E value \in TranscriptLines, wrote \in WriteOutcomes :
          Lower(Strip(value)) = L_clear /\ InputSubmitted(value, wrote)

\* the step is an explicit clear of the responses log
ClearsResponses ==
    \/ ResponsesClearPressed
    \/ \E value \in TranscriptLines, wrote \in WriteOutcomes :
          Lower(Strip(value)) = L_clear /\ InputSubmitted(value, wrote)

\* the lines of an exported text, in its order
ExportedLines(text) == [i \in 1..Len(text) |-> text[i].text]

(***************************************************************************)
(* C22: every step that is not an explicit clear leaves each of the two    *)
(* logs as it is or puts entries at its end (no entry is changed, moved or *)
(* removed); a clear empties the log; and a copy exports the entries of    *)
(* the log in the order they stand in, one per line, whatever the request  *)
(* and its tool calls have written in between.                             *)
(***************************************************************************)
C22_AppendOnlyBetweenClears ==
    /\ [][ IF ClearsConversation THEN conversation_lines' = << >>
           ELSE Extends(conversation_lines, conversation_lines') ]_vars
    /\ [][ IF ClearsResponses THEN response_lines' = << >>
           ELSE Extends(response_lines, response_lines') ]_vars
    /\ [][ \A ran \in BOOLEAN :
             /\ (ConversationCopyPressed(ran) /\ ran /\ conversation_lines # << >>) =>
                   /\ ExportedLines(clipboard') = conversation_lines
                   /\ \A i \in 1..Len(clipboard') :
                         clipboard'[i].newline <=> i < Len(clipboard')
             /\ (ResponsesCopyPressed(ran) /\ ran /\ response_lines # << >>) =>
                   /\ ExportedLines(clipboard') = response_lines
                   /\ \A i \in 1..Len(clipboard') :
                         clipboard'[i].newline <=> i < Len(clipboard')
         ]_vars

\* the conversation of a request with a tool call was exported while the call
\* was in progress, and the request has written to the log since
C22_Witness ==
    /\ Len(clipboard) = 2
    /\ clipboard[1].text.kind = "User"
    /\ clipboard[2].text.kind = "ToolCall"
    /\ Len(conversation_lines) >= 4
    /\ conversation_lines[3].msg = "Copied conversation to clipboard."
    /\ conversation_lines[4].kind \in { "Assistant", "Error" }
    /\ response_lines # << >>


\* the most recent 1000 of the entries
MostRecent(entries) ==
    SubSeq(entries, Max2(1, Len(entries) - HistoryFileCap + 1), Len(entries))

\* the step appends the line to the history log, its write succeeding or not
Appends(line, wrote) ==
    \/ AppendHistory(line, wrote)
    \/ phase = "mount_question" /\ line = question /\ AskQuestion(line, wrote)

\* the lines the sessions append
AppendedLines == { QuestionNo(n) : n \in 1..(HistoryFileCap + MaxHistory + 1) }
                 \cup { L_hi, L_two_lines }

(***************************************************************************)
(* C23 (as claimed): every append writes the history file at once: after   *)
(* a successful write the file holds the most recent 1000 entries of the   *)
(* log, one per line and in order, so at most 1000 lines, and reading it   *)
(* back gives exactly those entries; after a failed write the file is as   *)
(* it was; either way the log has the new entry at its end and the session *)
(* runs on; nothing else writes the file.                                  *)
(***************************************************************************)
C23_PersistedOnEveryAppend ==
    /\ [][ \A line \in AppendedLines, wrote \in WriteOutcomes :
              Appends(line, wrote) =>
                 /\ history_entries' = Append(history_entries, line)
                 /\ phase' = "mounted"
                 /\ IF wrote
                    THEN /\ history_file' = MostRecent(history_entries')
                         /\ Len(history_file') <= HistoryFileCap
                         /\ LoadHistory(history_file') = MostRecent(history_entries')
                    ELSE history_file' = history_file
         ]_vars
    /\ [][ history_file' # history_file => history_entries' # history_entries ]_vars

\* no entry of the log has a newline in it
SingleLines(entries) ==
    \A n \in 1..Len(entries) : \A i \in 1..Len(entries[n]) : entries[n][i] # "\n"

\* what does hold: the same, for a log whose entries have no newline in them
C23_PersistedUnlessNewline ==
    /\ [][ \A line \in AppendedLines, wrote \in WriteOutcomes :
              (Appends(line, wrote) /\ SingleLines(history_entries')) =>
                 /\ history_entries' = Append(history_entries, line)
                 /\ phase' = "mounted"
                 /\ IF wrote
                    THEN /\ history_file' = MostRecent(history_entries')
                         /\ Len(history_file') <= HistoryFileCap
                         /\ LoadHistory(history_file') = MostRecent(history_entries')
                    ELSE history_file' = history_file
         ]_vars
    /\ [][ history_file' # history_file => history_entries' # history_entries ]_vars

\* the log holds one entry, a question of two lines, and the file written for it
\* reads back as two entries
C23_Witness ==
    /\ phase = "mounted"
    /\ history_entries = << L_two_lines >>
    /\ Len(history_file) = 2
    /\ LoadHistory(history_file) = << << "h", "i" >>, << "y", "o" >> >>


\* what normalize is claimed to return for the id, given the ids of the snapshot
Normalized(id, known) ==
    IF StartsWith(id, ProviderPrefix) THEN id
    ELSE IF id \in known THEN ProviderPrefix \o id
    ELSE id

\* the ids of a snapshot's entries
IdsOf(snap) == {snap.data[i].id : i \in 1..Len(snap.data)}

(***************************************************************************)
(* C24: for every id and for the snapshot of every state (none, a small    *)
(* catalog, a large one), normalize returns the id as it is when it starts *)
(* with the provider prefix, the id with the prefix in front when it is an *)
(* id of the snapshot, and the id as it is otherwise (the empty id, no     *)
(* snapshot); normalizing the result again returns the result; and         *)
(* "/model <id>" makes the normalized id the current model, so selecting   *)
(* the current model again leaves it as it is.                             *)
(***************************************************************************)
C24_NormalizeIdempotent ==
    /\ [](\A id \in NormalizeIds :
            LET cache == LoadModelCache(model_cache, cache_file)
                once == NormalizeOpenrouterModel(id, cache)
            IN  /\ once = Normalized(id, IdsOf(cache))
                /\ NormalizeOpenrouterModel(once, cache) = once
                /\ cache.data = << >> => once = id)
    /\ [][ \A id \in NormalizeIds \ { << >> }, wrote \in WriteOutcomes :
              CommandSubmitted(L_model_sp \o id, wrote) =>
                 /\ model' = Normalized(id, KnownIds)
                 /\ id = model => model' = model
         ]_vars

\* with a catalog cached, a bare id of it was selected and then the qualified id
\* it became: the current model is the qualified id after both
C24_Witness ==
    /\ model_cache.data = CatalogA
    /\ Len(conversation_lines) = 2
    /\ conversation_lines[1] = Sys(SelectedMsg, << ProviderPrefix \o ModelX.id >>)
    /\ conversation_lines[2] = conversation_lines[1]
    /\ model = ProviderPrefix \o ModelX.id
    /\ events = 2


\* how many places of the task's trace hold one of the kinds
Count(t, kinds) == Cardinality(TraceOf(t, kinds))

\* the entries the step appends to the responses log
AddedResponses == Added(response_lines, response_lines')

\* the task is inside call_tool: the transport has been invoked and has not finished
InTransport(t) == tasks[t].pc = "tool"

(***************************************************************************)
(* C25: the step in which the transport returns appends one response entry *)
(* for the call and nothing else, and hands the result to the agent as it  *)
(* is; the step in which it raises appends one error entry with the        *)
(* exception's chain and raises the same exception into the agent; the     *)
(* cancellation of a request inside a tool call appends no entry to the    *)
(* responses log and ends the request as cancelled, with the "Request      *)
(* cancelled." line; and in every state a request has one transport        *)
(* invocation per call entry and one closing entry per invocation that has *)
(* finished: none for the one in progress or cut short by cancellation.    *)
(***************************************************************************)
C25_OneClosingEntryPerCall ==
    /\ [][ \A t \in DOMAIN tasks :
             /\ \A result \in ToolResults :
                   ToolReturns(t, result) =>
                      /\ InTransport(t) /\ ~InTransport(t)'
                      /\ AddedResponses =
                           << Entry("ToolResponse", "->",
                                    << << tasks[t].tool, "{}", result.json >> >>,
                                    SizeTenthsKb(result.bytes), t, tasks[t].ncalls) >>
                      /\ tasks'[t].toolres = << result >>
                      /\ tasks'[t].toolerr = tasks[t].toolerr
                      /\ tasks'[t].ncalls = tasks[t].ncalls
                      /\ UNCHANGED conversation_lines
             /\ \A exc \in ToolExcs :
                   ToolRaises(t, exc) =>
                      /\ InTransport(t) /\ ~InTransport(t)'
                      /\ Len(AddedResponses) = 1
                      /\ AddedResponses[1].kind = "ToolError"
                      /\ AddedResponses[1].call = tasks[t].ncalls
                      /\ AddedResponses[1].arg[1] = << exc.cls, exc.msg >>
                      /\ tasks'[t].toolerr = << exc >>
                      /\ tasks'[t].toolres = tasks[t].toolres
                      /\ tasks'[t].ncalls = tasks[t].ncalls
                      /\ UNCHANGED conversation_lines
             /\ (InTransport(t) /\ tasks[t].must_cancel /\ tasks'[t] # tasks[t]) =>
                      /\ UNCHANGED response_lines
                      /\ tasks'[t].pc = "done"
                      /\ tasks'[t].outcome = "cancelled"
                      /\ tasks'[t].toolres = tasks[t].toolres
                      /\ tasks'[t].toolerr = tasks[t].toolerr
                      /\ Len(AddedLines) = 1
                      /\ AddedLines[1].msg = "Request cancelled."
                      /\ current_task' = 0
         ]_vars
    /\ [](\A t \in DOMAIN tasks :
            LET calls == Count(t, { "ToolCall" })
                closings == Count(t, { "ToolResponse", "ToolError" })
                cut == \E i \in TraceOf(t, { "Cancelled" }) :
                          i > 1 /\ tasks[t].trace[i - 1] = "ToolCall"
            IN  /\ calls = tasks[t].ncalls
                /\ closings = calls - (IF InTransport(t) \/ cut THEN 1 ELSE 0)
                /\ \A i \in TraceOf(t, { "ToolResponse", "ToolError" }) :
                      i > 1 /\ tasks[t].trace[i - 1] = "ToolCall")

\* a request was cancelled inside a tool call: its call entry has no closing
\* entry, and the request of before it has a call entry closed by a response
C25_Witness ==
    /\ DOMAIN tasks = { 1, 2 }
    /\ tasks[1].trace = << "User", "ToolCall", "ToolResponse", "Assistant" >>
    /\ tasks[2].trace = << "User", "ToolCall", "Cancelled" >>
    /\ tasks[2].outcome = "cancelled"
    /\ \E i \in 1..Len(conversation_lines) :
          conversation_lines[i].kind = "ToolCall" /\ conversation_lines[i].req = 2
    /\ \A i \in 1..Len(response_lines) : response_lines[i].req # 2

====
